---------------------------- MODULE Spec2Model ----------------------------
(***************************************************************************)
(* Verification model of the Hopsworks Kubernetes installer.               *)
(*                                                                         *)
(* Spec      : install_hopsworks with its status ticker thread, the        *)
(*             readiness monitor wait_for_deployment and its key listener  *)
(*             thread (src/install-hopsworks.py).                          *)
(* SpecPods  : the pod based readiness monitor wait_for_pods_ready         *)
(*             (src/inst_eksversion.py, src/hop-deploy.py).                *)
(* SpecPrereq: the per provider prerequisite paths of                      *)
(*             HopsworksInstaller.run (src/install-hopsworks.py).          *)
(*                                                                         *)
(* Time is counted in seconds.  Threads interleave at the granularity of   *)
(* one statement that reads or writes shared state.                        *)
(***************************************************************************)
EXTENDS Integers, Sequences, FiniteSets, TLC

VARIABLES
    \* ---- install_hopsworks (main thread) ----
    ipc,            \* position of install_hopsworks
    iresult,        \* its return value: "none", "True", "False"
    helm_error,     \* stderr of the helm command, a set of phrases
    helm_success,   \* its success flag: "none", "True", "False"
    \* ---- periodic_status_update (ticker thread) ----
    tpc,            \* position of the ticker thread
    stop_event,     \* threading.Event shared with install_hopsworks
    \* ---- wait_for_deployment (main thread) ----
    wpc,            \* position of wait_for_deployment
    result,         \* its return value: "none", "True", "False"
    retSite,        \* which return statement was taken
    timeout,        \* the timeout parameter (seconds)
    elapsed,        \* time.time() - start_time (seconds, capped)
    override_flag,  \* threading.Event shared with the key listener
    \* ---- key_listener (daemon thread) ----
    platform,       \* sys.platform: "posix" or "win32"
    lpc,            \* position of the listener thread
    tty,            \* terminal input mode: "cooked" or "cbreak"
    \* ---- observations of the run (history) ----
    keyDetected,    \* the listener has read the override key '1'
    interruptedAt,  \* where a KeyboardInterrupt hit the monitor, or "none"
    everReady,      \* some check_status call returned is_ready
    failStreak,     \* consecutive failed status queries (capped)
    pollsAfterKey,  \* check_status calls made after keyDetected (capped)
    \* ---- wait_for_pods_ready ----
    variant,        \* "eks" (inst_eksversion.py) or "hopdeploy" (hop-deploy.py)
    ppc,            \* position of wait_for_pods_ready
    presult,        \* its return value: "none", "True", "False", "raised"
    pretSite,       \* which return statement was taken
    ptimeout,       \* the timeout parameter (seconds)
    pelapsed,       \* time.time() - start_time (seconds)
    snap,           \* the readiness snapshot of the current poll cycle
    \* ---- HopsworksInstaller.run: the prerequisite paths ----
    environment,    \* self.environment, "none" before the menu choice
    runPhase,       \* phase of run(): "menu", "prereq", ..., "exited"
    runStep,        \* index of the next command of the prerequisite path
    verify_i,       \* loop index of the AWS controller verification
    exit_code,      \* "none" while running, then "0" or "1"
    failed,         \* names of the commands that have failed
    critFail,       \* first failed cluster-creation/credential step, or "none"
    afterCrit,      \* commands executed after critFail was set
    lastAnswer,     \* the last executed command and what it answered
    \* ---- main of total-install.py ----
    main_pc,              \* position of main()
    main_args,            \* the parsed command line flags
    main_environment,     \* the chosen menu entry, "none" before the choice
    main_installation_id, \* installation_id of main()
    main_cluster_bound,   \* the locals cluster_name and region are assigned
    real_commands,        \* commands passed to subprocess.run, files written
    dry_logged,           \* commands only reported as "[DRY RUN] Would run"
    main_exit,            \* "none" while running, "0", "1" or "raised"
    \* ---- handle_license_and_user_data, send_user_data ----
    installation_id,      \* self.installation_id, "none" before it is set
    generated_id,         \* the uuid4 generated by send_user_data, or "none"
    post_outcome,         \* what the telemetry POST did, "none" if not sent
    \* ---- construct_helm_command ----
    hpc,                   \* "idle", "ready", "built" (one call), "rebuilt"
    HELM_BASE_CONFIG,      \* the module level base parameter table
    CLOUD_SPECIFIC_VALUES, \* the module level provider table
    self_environment,      \* self.environment of the installer
    managed_registry_info, \* self.managed_registry_info
    sa_email,              \* self.sa_email
    helm_command,          \* the list helm_command of the first call
    helm_command_again,    \* the list helm_command of the second call
    tables_before,         \* the two tables as they were before the calls
    \* ---- finalize_installation, get_load_balancer_address ----
    fpc,            \* position of finalize_installation, "idle" if not called
    fin_i,          \* the loop index i of finalize_installation
    address,        \* the local address, "null" for None
    queries,        \* queries made by the current get_load_balancer_address
    lb_state,       \* what the cluster knows of the hopsworks-release service
    \* ---- HopsworksInstaller.run: the dispatch of the phases ----
    run_variant,       \* "install" (install-hopsworks.py), "hopdeploy"
    rpc,               \* position of run(), "idle" if not called
    loadbalancer_only, \* self.args.loadbalancer_only
    installed_tools,   \* the binaries shutil.which finds
    run_environment,   \* self.environment, "none" for None
    calls,             \* the methods run() has called, in order
    run_exit,          \* "none" while running, then "0" or "1"
    \* ---- update_hosts_file ----
    hosts_written,     \* the entry has been appended to /etc/hosts
    hosts_printed,     \* the line "address hostname" has been printed
    hosts_return,      \* "none" before the call, then "returned" or "raised"
    \* ---- health_check ----
    hc_pc,             \* "idle", "ready" (before the call), "returned"
    hc_success,        \* success flag of the kubectl query
    hc_output,         \* the phases kubectl printed, in order
    hc_result,         \* return value: "none", "True", "False"
    \* ---- setup_aks_prerequisites ----
    provisioningState, \* state of the AKS cluster creation, "none" before it
    aks_pc             \* position in the provisioning poll loop: "poll", "sleep"

vars == <<ipc, iresult, helm_error, helm_success, tpc, stop_event, wpc, result, retSite,
          timeout, elapsed, override_flag, platform, lpc, tty,
          keyDetected, interruptedAt, everReady, failStreak, pollsAfterKey,
          variant, ppc, presult, pretSite, ptimeout, pelapsed, snap,
          environment, runPhase, runStep, verify_i, exit_code, failed, critFail,
          afterCrit, lastAnswer,
          main_pc, main_args, main_environment, main_installation_id,
          main_cluster_bound, real_commands, dry_logged, main_exit,
          installation_id, generated_id, post_outcome,
          hpc, HELM_BASE_CONFIG, CLOUD_SPECIFIC_VALUES, self_environment,
          managed_registry_info, sa_email, helm_command, helm_command_again,
          tables_before,
          fpc, fin_i, address, queries, lb_state,
          run_variant, rpc, loadbalancer_only, installed_tools,
          run_environment, calls, run_exit,
          hosts_written, hosts_printed, hosts_return,
          hc_pc, hc_success, hc_output, hc_result,
          provisioningState, aks_pc>>

podsVars    == <<variant, ppc, presult, pretSite, ptimeout, pelapsed, snap>>
prereqVars  == <<environment, runPhase, runStep, verify_i, exit_code, failed,
                 critFail, afterCrit, lastAnswer>>

installVars == <<ipc, iresult, helm_error, helm_success>>
tickerVars  == <<tpc, stop_event>>
waitVars    == <<wpc, result, retSite, timeout, elapsed>>
listenVars  == <<platform, lpc, tty>>
histVars    == <<keyDetected, interruptedAt, everReady, failStreak, pollsAfterKey>>
installAll  == <<installVars, tickerVars, waitVars, override_flag,
                 listenVars, histVars>>
totalVars   == <<main_pc, main_args, main_environment, main_installation_id,
                 main_cluster_bound, real_commands, dry_logged, main_exit>>
licenseVars == <<installation_id, generated_id, post_outcome>>
helmVars    == <<hpc, HELM_BASE_CONFIG, CLOUD_SPECIFIC_VALUES,
                 self_environment, managed_registry_info, sa_email,
                 helm_command, helm_command_again, tables_before>>
lbVars      == <<fpc, fin_i, address, queries, lb_state>>
dispatchVars == <<run_variant, rpc, loadbalancer_only, installed_tools,
                  run_environment, calls, run_exit>>
hostsVars   == <<hosts_written, hosts_printed, hosts_return>>
healthVars  == <<hc_pc, hc_success, hc_output, hc_result>>
aksVars     == <<provisioningState, aks_pc>>
lateVars    == <<lbVars, dispatchVars, hostsVars, healthVars, aksVars>>
auxVars     == <<totalVars, licenseVars, helmVars, lateVars>>

----------------------------------------------------------------------------
\* Bounds of the model
MaxTimeout == 11        \* timeouts 0..MaxTimeout seconds are explored
MaxJobs    == 2         \* at most this many jobs are listed by kubectl
MaxFails   == 3         \* failStreak is counted up to this value
MaxPolls   == 2         \* pollsAfterKey is counted up to this value

\* Program constants
POLL_INTERVAL == 5      \* time.sleep(5) of the polling loop
TIMEOUT_SLEEP == 1      \* time.sleep(1) of the wait after the timeout

MaxElapsed == MaxTimeout + POLL_INTERVAL + 2

\* The flags of total-install.py before parse_arguments has run
NoArgs == [dry_run |-> FALSE, ingress_only |-> FALSE, no_user_data |-> FALSE,
           skip_license |-> FALSE]

Min(a, b) == IF a < b THEN a ELSE b

----------------------------------------------------------------------------
\* KNOWN_NONFATAL_ERRORS: the allow-list of benign helm messages
KNOWN_NONFATAL_ERRORS == {"invalid ingress class: IngressClass.networking.k8s.io"}

\* The error texts the helm command is explored with; a text is the set of
\* phrases it contains ("err in error" is membership).
HelmErrors ==
    { {},
      {"invalid ingress class: IngressClass.networking.k8s.io"},
      {"timed out waiting for the condition"},
      {"invalid ingress class: IngressClass.networking.k8s.io",
       "timed out waiting for the condition"} }

\* any(err in error for err in KNOWN_NONFATAL_ERRORS)
IsKnownNonFatal_any_text(error) == error # {}

IsKnownNonFatal(error) == \E err \in KNOWN_NONFATAL_ERRORS : err \in error

----------------------------------------------------------------------------
\* construct_helm_command: the Python values of the parameter tables.
\* A dict is the sequence of its items in insertion order.

Str(s)  == [kind |-> "str",  s |-> s,  b |-> FALSE, d |-> <<>>]
Bool(b) == [kind |-> "bool", s |-> "", b |-> b,     d |-> <<>>]
None    == [kind |-> "None", s |-> "", b |-> FALSE, d |-> <<>>]
Dict(d) == [kind |-> "dict", s |-> "", b |-> FALSE, d |-> d]

Item(k, v) == [k |-> k, v |-> v]

DictKeys(d) == {d[i].k : i \in 1..Len(d)}

\* d[k]
DictGet(d, k) == d[CHOOSE i \in 1..Len(d) : d[i].k = k].v

\* d[k] = v: an existing key keeps its position, a new key goes last
DictSet(d, k, v) ==
    IF k \in DictKeys(d)
    THEN [i \in 1..Len(d) |-> IF d[i].k = k THEN Item(k, v) ELSE d[i]]
    ELSE Append(d, Item(k, v))

\* d.update(e), also dict(items) when d is empty
RECURSIVE dict_update(_, _)
dict_update(d, e) ==
    IF Len(e) = 0 THEN d
    ELSE dict_update(DictSet(d, Head(e).k, Head(e).v), Tail(e))

\* d.copy(): a new dict object with the same items; shares says whether a
\* later update of the result also changes d
dict_copy_aliased(d) == [value |-> d, shares |-> TRUE]

dict_copy(d) == [value |-> d, shares |-> FALSE]

\* flatten_dict(d, parent_key, sep='.'): flatten_items is its list items
RECURSIVE flatten_items(_, _)
RECURSIVE flatten_dict(_, _)
flatten_items(d, parent_key) ==
    IF Len(d) = 0 THEN << >>
    ELSE LET k == Head(d).k
             v == Head(d).v
             new_key == IF parent_key # "" THEN parent_key \o "." \o k ELSE k
         IN (IF v.kind = "dict"
             THEN flatten_dict(v.d, new_key)
             ELSE << Item(new_key, v) >>)
            \o flatten_items(Tail(d), parent_key)

flatten_dict(d, parent_key) == dict_update(<< >>, flatten_items(d, parent_key))

----------------------------------------------------------------------------
\* check_status: jobsOk is "success and output.strip()" of the jobs query,
\* jobs the sequence of the listed jobs' last columns, svcOk and phase the
\* outcome of the pod query for hopsworks-instance.
JobDone(status) == status \in {"Complete", "SuccessCriteriaMet"}

IncompleteJobs(jobs) == {i \in DOMAIN jobs : ~JobDone(jobs[i])}

check_status_failure_is_ready(jobsOk, jobs, svcOk, phase) ==
    IF ~jobsOk
    THEN <<TRUE, 0, 0>>
    ELSE LET services_ready == svcOk /\ phase = "Running"
             total_jobs == Len(jobs)
             complete_jobs == total_jobs - Cardinality(IncompleteJobs(jobs))
         IN <<services_ready /\ IncompleteJobs(jobs) = {}, complete_jobs, total_jobs>>

check_status(jobsOk, jobs, svcOk, phase) ==
    IF ~jobsOk
    THEN <<FALSE, 0, 0>>
    ELSE LET services_ready == svcOk /\ phase = "Running"
             total_jobs == Len(jobs)
             complete_jobs == total_jobs - Cardinality(IncompleteJobs(jobs))
         IN <<services_ready /\ IncompleteJobs(jobs) = {}, complete_jobs, total_jobs>>

JobStatuses == {"Complete", "SuccessCriteriaMet", "Failed", "<none>"}
JobLists == UNION {[1..n -> JobStatuses] : n \in 0..MaxJobs}
Phases == {"Running", "Pending"}

----------------------------------------------------------------------------
\* wait_for_pods_ready(namespace, timeout=600, readiness_threshold=0.7)

\* Program constants
THRESHOLD_NUM == 7          \* readiness_threshold = 0.7 = 7 / 10
THRESHOLD_DEN == 10
PODS_SLEEP == 5             \* time.sleep(5)
PROMPT_AFTER_EKS == 10      \* if time.time() - start_time > 10
PROMPT_AFTER_HOPDEPLOY == 30 \* if time.time() - start_time > 30

\* The timeouts explored
PodTimeouts == {0, 15, 40}

critical_pods == <<"namenode", "resourcemanager", "hopsworks", "mysql">>

CriticalNames == {critical_pods[i] : i \in DOMAIN critical_pods}

\* The pods of the namespace.  A pod name is the sequence of its parts;
\* "critical in name" holds when one of the parts is the critical substring.
PodNames ==
    { <<"namenode", "0">>, <<"resourcemanager", "0">>, <<"hopsworks", "0">>,
      <<"hopsworks", "1">>, <<"mysql", "0">>, <<"kafka", "0">>, <<"kafka", "1">> }

Contains(name, critical) == \E i \in DOMAIN name : name[i] = critical

\* What kubectl reports of one pod: not listed, listed without
\* containerStatuses, all containers ready, one container not ready.
PodStates == {"absent", "nostatus", "ready", "notready"}

\* pod['status'].get('containerStatuses', []) as the sequence of 'ready' flags
ContainerStatuses(state) ==
    CASE state = "ready"    -> <<TRUE, TRUE>>
      [] state = "notready" -> <<TRUE, FALSE>>
      [] OTHER              -> << >>

\* json.loads(output)['items']
Items(pods) == {n \in DOMAIN pods : pods[n] # "absent"}

\* all(cont.get('ready', False) for cont in ...containerStatuses...)
PodReady(state) ==
    LET cs == ContainerStatuses(state) IN \A i \in DOMAIN cs : cs[i]

\* any(critical in pod['metadata']['name'] for critical in critical_pods)
IsCritical(name) == \E i \in DOMAIN critical_pods : Contains(name, critical_pods[i])

ReadyPods(pods) == {n \in Items(pods) : PodReady(pods[n])}

CriticalReady(pods) == {n \in ReadyPods(pods) : IsCritical(n)}

\* readiness_ratio >= readiness_threshold, with ratio = ready / total
\* (0 when total is 0)
RatioReached(ready, total) ==
    IF total > 0 THEN ready * THRESHOLD_DEN >= THRESHOLD_NUM * total ELSE FALSE

\* readiness_ratio >= readiness_threshold and critical_ready == len(critical_pods)
SufficientPodsReady(pods) ==
    /\ RatioReached(Cardinality(ReadyPods(pods)), Cardinality(Items(pods)))
    /\ Cardinality(CriticalReady(pods)) = Len(critical_pods)

\* The snapshot kept of a poll cycle
Snapshot(pods) ==
    [ polled |-> TRUE,
      total_pods |-> Cardinality(Items(pods)),
      ready_pods |-> Cardinality(ReadyPods(pods)),
      critical_ready |-> Cardinality(CriticalReady(pods)),
      namesReady |-> {c \in CriticalNames :
                         \E n \in ReadyPods(pods) : Contains(n, c)},
      criticalNotReady |-> Cardinality({n \in Items(pods) \ ReadyPods(pods) :
                                           IsCritical(n)}),
      noStatusCounted |-> Cardinality({n \in ReadyPods(pods) :
                                          ContainerStatuses(pods[n]) = << >>}) ]

NoSnapshot ==
    [ polled |-> FALSE, total_pods |-> 0, ready_pods |-> 0,
      critical_ready |-> 0, namesReady |-> {}, criticalNotReady |-> 0,
      noStatusCounted |-> 0 ]

\* while time.time() - start_time < timeout:  ...  return False
PodsLoopTest ==
    /\ ppc = "loop_test"
    /\ snap' = NoSnapshot
    /\ IF pelapsed < ptimeout
       THEN /\ ppc' = "query"
            /\ UNCHANGED <<presult, pretSite>>
       ELSE /\ ppc' = "done"
            /\ presult' = "False"
            /\ pretSite' = "timeout"
    /\ UNCHANGED <<variant, ptimeout, pelapsed, installAll, prereqVars, auxVars>>

\* One poll: kubectl get pods -o json, the counts, the readiness decision
PodsPoll ==
    /\ ppc = "query"
    /\ \E success \in BOOLEAN, pods \in [PodNames -> PodStates] :
          IF ~success
          THEN /\ ppc' = "sleep"
               /\ UNCHANGED <<presult, pretSite, snap>>
          ELSE /\ snap' = Snapshot(pods)
               /\ IF variant = "hopdeploy" /\ Items(pods) = {}
                  THEN \* ready_pods / total_pods raises ZeroDivisionError
                       /\ ppc' = "done"
                       /\ presult' = "raised"
                       /\ pretSite' = "error"
                  ELSE IF SufficientPodsReady(pods)
                  THEN /\ ppc' = "done"
                       /\ presult' = "True"
                       /\ pretSite' = "ready"
                  ELSE /\ ppc' = IF /\ variant = "eks"
                                    /\ pelapsed > PROMPT_AFTER_EKS
                                    /\ RatioReached(Cardinality(ReadyPods(pods)),
                                                    Cardinality(Items(pods)))
                                 THEN "prompt" ELSE "sleep"
                       /\ UNCHANGED <<presult, pretSite>>
    /\ UNCHANGED <<variant, ptimeout, pelapsed, installAll, prereqVars, auxVars>>

\* time.sleep(5); in hop-deploy.py the prompt follows once 30 s have passed
PodsSleep ==
    /\ ppc = "sleep"
    /\ pelapsed' = pelapsed + PODS_SLEEP
    /\ ppc' = IF variant = "hopdeploy" /\ pelapsed' > PROMPT_AFTER_HOPDEPLOY
              THEN "prompt" ELSE "loop_test"
    /\ UNCHANGED <<variant, presult, pretSite, ptimeout, snap, installAll,
                   prereqVars, auxVars>>

\* get_user_input("Most of the pods are ready! Proceed? (yes/no): ")
PodsPrompt ==
    /\ ppc = "prompt"
    /\ \E proceed \in {"yes", "no"} :
          IF proceed = "yes"
          THEN /\ ppc' = "done"
               /\ presult' = "True"
               /\ pretSite' = "prompt"
          ELSE /\ ppc' = IF variant = "eks" THEN "sleep" ELSE "loop_test"
               /\ UNCHANGED <<presult, pretSite>>
    /\ UNCHANGED <<variant, ptimeout, pelapsed, snap, installAll, prereqVars, auxVars>>

----------------------------------------------------------------------------
\* HopsworksInstaller.install_hopsworks

PreSteps == <<"repo_add", "repo_update", "pull", "namespace", "construct">>

NextPreStep(step) ==
    LET i == CHOOSE j \in 1..Len(PreSteps) : PreSteps[j] = step
    IN PreSteps[i + 1]

\* helm repo add / helm repo update / helm pull / kubectl create namespace:
\* each returns False from install_hopsworks when the command fails.
PreStep ==
    /\ ipc \in {"repo_add", "repo_update", "pull", "namespace"}
    /\ \E ok \in BOOLEAN :
          IF ok
          THEN /\ ipc' = NextPreStep(ipc)
               /\ iresult' = iresult
          ELSE /\ ipc' = "done"
               /\ iresult' = "False"
    /\ UNCHANGED <<helm_error, helm_success, tickerVars, waitVars, override_flag,
                   listenVars, histVars, podsVars, prereqVars, auxVars>>

\* construct_helm_command(); stop_event = Event(); status_thread.start()
StartTicker ==
    /\ ipc = "construct"
    /\ ipc' = "helm"
    /\ stop_event' = FALSE
    /\ tpc' = "test"
    /\ UNCHANGED <<iresult, helm_error, helm_success, waitVars, override_flag,
                   listenVars, histVars, podsVars, prereqVars, auxVars>>

\* run_command(helm_command) inside the try block, and the allow-list test
RunHelm ==
    /\ ipc = "helm"
    /\ \E success \in BOOLEAN, error \in HelmErrors :
          /\ helm_error' = error
          /\ helm_success' = IF success THEN "True" ELSE "False"
          /\ IF ~success /\ ~IsKnownNonFatal(error)
             THEN /\ iresult' = "False"
                  /\ ipc' = "fin_set"
                  /\ wpc' = wpc
             ELSE /\ iresult' = iresult
                  /\ ipc' = "wait"
                  /\ wpc' = "start"
    /\ UNCHANGED <<tickerVars, result, retSite, timeout, elapsed,
                   override_flag, listenVars, histVars, podsVars, prereqVars, auxVars>>

\* return wait_for_deployment(self.namespace)
WaitReturns ==
    /\ ipc = "wait"
    /\ wpc = "done"
    /\ iresult' = result
    /\ ipc' = "fin_set"
    /\ UNCHANGED <<helm_error, helm_success, tickerVars, waitVars, override_flag,
                   listenVars, histVars, podsVars, prereqVars, auxVars>>

\* finally: stop_event.set()
FinSet ==
    /\ ipc = "fin_set"
    /\ stop_event' = TRUE
    /\ ipc' = "fin_join"
    /\ UNCHANGED <<iresult, helm_error, helm_success, tpc, waitVars, override_flag,
                   listenVars, histVars, podsVars, prereqVars, auxVars>>

\* finally: status_thread.join()
FinJoin ==
    /\ ipc = "fin_join"
    /\ tpc = "done"
    /\ ipc' = "done"
    /\ UNCHANGED <<iresult, helm_error, helm_success, tickerVars, waitVars, override_flag,
                   listenVars, histVars, podsVars, prereqVars, auxVars>>

\* run(): if self.install_hopsworks(): self.finalize_installation()
\* else: sys.exit(1)
InstallReturned ==
    /\ ipc = "done"
    /\ runPhase = "install"
    /\ IF iresult = "True"
       THEN runPhase' = "finalize" /\ exit_code' = exit_code
       ELSE runPhase' = "exited" /\ exit_code' = "1"
    /\ UNCHANGED <<environment, runStep, verify_i, failed, critFail,
                   afterCrit, lastAnswer, installAll, podsVars, auxVars>>

----------------------------------------------------------------------------
\* periodic_status_update(stop_event, namespace)

\* while not stop_event.is_set():
TickTest ==
    /\ tpc = "test"
    /\ tpc' = IF stop_event THEN "done" ELSE "query"
    /\ UNCHANGED <<installVars, stop_event, waitVars, override_flag,
                   listenVars, histVars, podsVars, prereqVars, auxVars>>

\* run_command("kubectl get pods ...") and the status line it prints
TickQuery ==
    /\ tpc = "query"
    /\ tpc' = "sleep"
    /\ UNCHANGED <<installVars, stop_event, waitVars, override_flag,
                   listenVars, histVars, podsVars, prereqVars, auxVars>>

\* time.sleep(10)
TickSleep ==
    /\ tpc = "sleep"
    /\ tpc' = "test"
    /\ UNCHANGED <<installVars, stop_event, waitVars, override_flag,
                   listenVars, histVars, podsVars, prereqVars, auxVars>>

----------------------------------------------------------------------------
\* wait_for_deployment(namespace, timeout)

\* The positions inside the try block, where a KeyboardInterrupt is caught
TryBody == {"check_override", "check_timeout", "blocked", "status", "sleep"}

\* Seconds one check_status call may take
QueryDurations == {0, 1}

\* start_time = time.time(); override_flag = Event(); listener.start()
WaitStart ==
    /\ wpc = "start"
    /\ elapsed' = 0
    /\ override_flag' = FALSE
    /\ lpc' = IF platform = "win32" THEN "test" ELSE "setup"
    /\ wpc' = "check_override"
    /\ UNCHANGED <<installVars, tickerVars, result, retSite, timeout,
                   platform, tty, histVars, podsVars, prereqVars, auxVars>>

\* if override_flag.is_set(): return True
CheckOverride_ignored ==
    /\ wpc = "check_override"
    /\ wpc' = "check_timeout"
    /\ UNCHANGED <<installVars, tickerVars, result, retSite, timeout, elapsed,
                   override_flag, listenVars, histVars, podsVars, prereqVars, auxVars>>

CheckOverride ==
    /\ wpc = "check_override"
    /\ IF override_flag
       THEN /\ result' = "True"
            /\ retSite' = "override"
            /\ wpc' = "finally"
       ELSE /\ wpc' = "check_timeout"
            /\ UNCHANGED <<result, retSite>>
    /\ UNCHANGED <<installVars, tickerVars, timeout, elapsed, override_flag,
                   listenVars, histVars, podsVars, prereqVars, auxVars>>

\* if (time.time() - start_time) >= timeout:
CheckTimeout ==
    /\ wpc = "check_timeout"
    /\ wpc' = IF elapsed >= timeout THEN "blocked" ELSE "status"
    /\ UNCHANGED <<installVars, tickerVars, result, retSite, timeout, elapsed,
                   override_flag, listenVars, histVars, podsVars, prereqVars, auxVars>>

\* while not override_flag.is_set(): time.sleep(1)
\* return True
TimeoutWait_returns ==
    /\ wpc = "blocked"
    /\ result' = "True"
    /\ retSite' = "timeout"
    /\ wpc' = "finally"
    /\ UNCHANGED <<installVars, tickerVars, timeout, elapsed, override_flag,
                   listenVars, histVars, podsVars, prereqVars, auxVars>>

TimeoutWait ==
    /\ wpc = "blocked"
    /\ IF override_flag
       THEN /\ result' = "True"
            /\ retSite' = "timeout"
            /\ wpc' = "finally"
            /\ elapsed' = elapsed
       ELSE /\ elapsed' = Min(elapsed + TIMEOUT_SLEEP, MaxElapsed)
            /\ UNCHANGED <<wpc, result, retSite>>
    /\ UNCHANGED <<installVars, tickerVars, timeout, override_flag,
                   listenVars, histVars, podsVars, prereqVars, auxVars>>

\* is_ready, complete_jobs, total_jobs = check_status()
\* if is_ready: return True
CheckStatus ==
    /\ wpc = "status"
    /\ \E jobsOk \in BOOLEAN, jobs \in JobLists, svcOk \in BOOLEAN,
          phase \in Phases, d \in QueryDurations :
          LET st == check_status(jobsOk, jobs, svcOk, phase)
          IN /\ IF st[1]
                THEN /\ result' = "True"
                     /\ retSite' = "ready"
                     /\ wpc' = "finally"
                ELSE /\ wpc' = "sleep"
                     /\ UNCHANGED <<result, retSite>>
             /\ elapsed' = Min(elapsed + d, MaxElapsed)
             /\ everReady' = (everReady \/ st[1])
             /\ failStreak' = IF jobsOk THEN 0 ELSE Min(failStreak + 1, MaxFails)
    /\ pollsAfterKey' = IF keyDetected THEN Min(pollsAfterKey + 1, MaxPolls)
                        ELSE pollsAfterKey
    /\ UNCHANGED <<installVars, tickerVars, timeout, override_flag,
                   listenVars, keyDetected, interruptedAt, podsVars,
                   prereqVars, auxVars>>

\* time.sleep(5)
Sleep ==
    /\ wpc = "sleep"
    /\ elapsed' = Min(elapsed + POLL_INTERVAL, MaxElapsed)
    /\ wpc' = "check_override"
    /\ UNCHANGED <<installVars, tickerVars, result, retSite, timeout,
                   override_flag, listenVars, histVars, podsVars, prereqVars, auxVars>>

\* The operator presses Ctrl+C while the main thread is inside the try block
Interrupt ==
    /\ wpc \in TryBody
    /\ wpc' = "except"
    /\ interruptedAt' = wpc
    /\ UNCHANGED <<installVars, tickerVars, result, retSite, timeout, elapsed,
                   override_flag, listenVars, keyDetected, everReady,
                   failStreak, pollsAfterKey, podsVars, prereqVars, auxVars>>

\* except KeyboardInterrupt: ... return False
Except_propagates ==
    /\ wpc = "except"
    /\ result' = "raised"
    /\ retSite' = "interrupt"
    /\ wpc' = "finally"
    /\ UNCHANGED <<installVars, tickerVars, timeout, elapsed, override_flag,
                   listenVars, histVars, podsVars, prereqVars, auxVars>>

Except ==
    /\ wpc = "except"
    /\ result' = "False"
    /\ retSite' = "interrupt"
    /\ wpc' = "finally"
    /\ UNCHANGED <<installVars, tickerVars, timeout, elapsed, override_flag,
                   listenVars, histVars, podsVars, prereqVars, auxVars>>

\* finally: override_flag.set()
Finally ==
    /\ wpc = "finally"
    /\ override_flag' = TRUE
    /\ wpc' = "done"
    /\ UNCHANGED <<installVars, tickerVars, result, retSite, timeout, elapsed,
                   listenVars, histVars, podsVars, prereqVars, auxVars>>

----------------------------------------------------------------------------
\* key_listener(), the daemon thread of wait_for_deployment

Keys == {"1", "x"}

\* if sys.stdin.read(1) == '1'   /   if key == b'1'
IsOverrideKey_any(key) == TRUE

IsOverrideKey(key) == key = "1"

\* old_settings = termios.tcgetattr(sys.stdin); tty.setcbreak(...)
ListenSetup ==
    /\ lpc = "setup"
    /\ tty' = "cbreak"
    /\ lpc' = "test"
    /\ UNCHANGED <<installVars, tickerVars, waitVars, override_flag,
                   platform, histVars, podsVars, prereqVars, auxVars>>

\* while not override_flag.is_set():
ListenTest ==
    /\ lpc = "test"
    /\ lpc' = IF override_flag
              THEN (IF platform = "win32" THEN "done" ELSE "restore")
              ELSE (IF platform = "win32" THEN "kbhit" ELSE "read")
    /\ UNCHANGED <<installVars, tickerVars, waitVars, override_flag,
                   platform, tty, histVars, podsVars, prereqVars, auxVars>>

\* sys.stdin.read(1) blocks until the operator types a key
ListenRead ==
    /\ lpc = "read"
    /\ \E key \in Keys :
          /\ override_flag' = (override_flag \/ IsOverrideKey(key))
          /\ keyDetected' = (keyDetected \/ key = "1")
    /\ lpc' = "test"
    /\ UNCHANGED <<installVars, tickerVars, waitVars, platform, tty,
                   interruptedAt, everReady, failStreak, pollsAfterKey,
                   podsVars, prereqVars, auxVars>>

\* if msvcrt.kbhit(): key = msvcrt.getch() ...; threading.Event().wait(0.1)
ListenKbhit ==
    /\ lpc = "kbhit"
    /\ \E hit \in BOOLEAN, key \in Keys :
          /\ override_flag' = (override_flag \/ (hit /\ IsOverrideKey(key)))
          /\ keyDetected' = (keyDetected \/ (hit /\ key = "1"))
    /\ lpc' = "test"
    /\ UNCHANGED <<installVars, tickerVars, waitVars, platform, tty,
                   interruptedAt, everReady, failStreak, pollsAfterKey,
                   podsVars, prereqVars, auxVars>>

\* finally: termios.tcsetattr(sys.stdin, termios.TCSADRAIN, old_settings)
ListenRestore ==
    /\ lpc = "restore"
    /\ tty' = "cooked"
    /\ lpc' = "done"
    /\ UNCHANGED <<installVars, tickerVars, waitVars, override_flag,
                   platform, histVars, podsVars, prereqVars, auxVars>>

----------------------------------------------------------------------------
----------------------------------------------------------------------------
\* HopsworksInstaller.run: the prerequisite path of each provider.
\*
\* A prerequisite path is a sequence of external commands.  Each command has
\* a kind ("credential", "cluster", "resource", "other") and a mode that says
\* what the code does with its result:
\*   "exit"               sys.exit(1) when the command fails
\*   "exit_unless_exists" sys.exit(1) when it fails without "already exists"
\*   "ignore"             the result is not looked at
\*   "probe"              when it succeeds the next command is skipped
\*   "aks_poll"           the provisioning-state loop of the AKS path
\*   "aws_verify"         the bounded verification loop of the AWS path

Cmd(name, kind, mode) == [name |-> name, kind |-> kind, mode |-> mode]

\* setup_aws_prerequisites
AwsSteps ==
    << Cmd("aws sts get-caller-identity", "credential", "exit"),
       Cmd("aws sts get-caller-identity --query Account", "credential", "exit"),
       Cmd("aws s3 mb", "resource", "exit"),
       Cmd("aws s3api put-bucket-versioning", "resource", "exit"),
       Cmd("aws ecr create-repository", "resource", "exit"),
       Cmd("aws iam create-policy", "resource", "exit"),
       Cmd("eksctl create cluster", "cluster", "exit"),
       Cmd("kubectl apply storage-class", "resource", "exit"),
       Cmd("curl iam_policy_alb.json", "other", "exit"),
       Cmd("aws iam create-policy alb", "resource", "ignore"),
       Cmd("eksctl create iamserviceaccount", "resource", "exit"),
       Cmd("helm install aws-load-balancer-controller", "resource", "exit"),
       Cmd("kubectl apply metrics-server", "other", "ignore"),
       Cmd("kubectl get deployment aws-load-balancer-controller", "other", "aws_verify") >>

\* setup_gke_prerequisites followed by setup_gke_authentication
GkeSteps ==
    << Cmd("gcloud iam roles create", "resource", "exit"),
       Cmd("gcloud iam service-accounts describe", "other", "probe"),
       Cmd("gcloud iam service-accounts create", "resource", "exit_unless_exists"),
       Cmd("gcloud projects remove-iam-policy-binding", "other", "ignore"),
       Cmd("gcloud projects add-iam-policy-binding", "resource", "exit"),
       Cmd("gcloud container clusters create", "cluster", "exit"),
       Cmd("gcloud container clusters get-credentials", "credential", "ignore"),
       Cmd("gcloud artifacts repositories create", "resource", "exit_unless_exists"),
       Cmd("kubectl create namespace", "other", "ignore"),
       Cmd("kubectl create serviceaccount", "other", "ignore"),
       Cmd("gcloud iam service-accounts add-iam-policy-binding", "other", "ignore"),
       Cmd("kubectl annotate serviceaccount", "other", "ignore"),
       Cmd("kubectl create configmap docker-config", "other", "ignore") >>

\* setup_aks_prerequisites
AksSteps ==
    << Cmd("az account show", "credential", "exit"),
       Cmd("az group show", "other", "probe"),
       Cmd("az group create", "resource", "exit"),
       Cmd("az aks create --no-wait", "cluster", "exit"),
       Cmd("az aks show --query provisioningState", "cluster", "aks_poll"),
       Cmd("az aks get-credentials", "credential", "exit"),
       Cmd("kubectl create namespace", "other", "ignore"),
       Cmd("kubectl apply -f sa.yaml", "other", "ignore") >>

MAX_RETRIES == 12       \* max_retries of the AWS controller verification

Environments == {"AWS", "Azure", "GCP", "OVH"}

StepsOf(env) ==
    CASE env = "AWS"   -> AwsSteps
      [] env = "GCP"   -> GkeSteps
      [] env = "Azure" -> AksSteps
      [] OTHER         -> << >>

\* What a command can answer: success, failure, failure whose error text
\* contains "already exists"
Outcomes == {"ok", "fail", "exists"}

\* A failure of this kind of step is a cluster-creation or credential failure
IsCritical_kind(kind) == kind \in {"cluster", "credential"}

\* The code exits with status 1 on this outcome of a command of this mode
ExitsOn(mode, outcome) ==
    \/ mode = "exit" /\ outcome # "ok"
    \/ mode = "exit_unless_exists" /\ outcome = "fail"

\* Before any command has run
NoAnswer == [name |-> "none", outcome |-> "none"]

\* The bookkeeping of one executed command
Executed(cmd, outcome) ==
    /\ failed' = IF outcome # "ok" THEN failed \cup {cmd.name} ELSE failed
    /\ critFail' = IF critFail = "none" /\ outcome # "ok" /\ IsCritical_kind(cmd.kind)
                   THEN cmd.name ELSE critFail
    /\ afterCrit' = IF critFail # "none" THEN afterCrit \cup {cmd.name}
                    ELSE afterCrit
    /\ lastAnswer' = [name |-> cmd.name, outcome |-> outcome]

\* Where run() goes after the last command of the path
AfterStep(i) ==
    IF i > Len(StepsOf(environment)) THEN "registry" ELSE "prereq"

\* get_deployment_environment: the menu of run()
ChooseEnvironment ==
    /\ runPhase = "menu"
    /\ \E env \in Environments : environment' = env
    /\ runPhase' = "prereq"
    /\ runStep' = 1
    /\ UNCHANGED <<verify_i, exit_code, failed, critFail, afterCrit,
                   lastAnswer, installAll, podsVars, auxVars>>

\* One command of a prerequisite path whose mode is exit, exit_unless_exists,
\* ignore or probe
RunStep ==
    /\ runPhase = "prereq"
    /\ environment \in {"AWS", "GCP", "Azure"}
    /\ runStep <= Len(StepsOf(environment))
    /\ LET cmd == StepsOf(environment)[runStep]
       IN /\ cmd.mode \in {"exit", "exit_unless_exists", "ignore", "probe"}
          /\ \E outcome \in Outcomes :
                /\ Executed(cmd, outcome)
                /\ IF ExitsOn(cmd.mode, outcome)
                   THEN /\ runPhase' = "exited"
                        /\ exit_code' = "1"
                        /\ runStep' = runStep
                   ELSE /\ runStep' = IF cmd.mode = "probe" /\ outcome = "ok"
                                      THEN runStep + 2 ELSE runStep + 1
                        /\ runPhase' = AfterStep(runStep')
                        /\ exit_code' = exit_code
    /\ UNCHANGED <<environment, verify_i, installAll, podsVars, auxVars>>

\* while True: az aks show ...; if success and "Succeeded" in output: break;
\* time.sleep(30)
AksPoll ==
    /\ runPhase = "prereq"
    /\ environment = "Azure"
    /\ runStep <= Len(AksSteps)
    /\ AksSteps[runStep].mode = "aks_poll"
    /\ aks_pc = "poll"
    /\ \E success \in BOOLEAN,
          state \in (IF provisioningState = "Failed" THEN {"Failed"}
                     ELSE {"Creating", "Succeeded", "Failed"}) :
          /\ provisioningState' = state
          /\ IF success /\ state = "Failed"
             THEN \* the asynchronous cluster creation has failed
                  Executed(AksSteps[runStep], "fail")
             ELSE \* still creating, created, or the query itself failed
                  Executed(Cmd(AksSteps[runStep].name, "other", "aks_poll"),
                           IF success THEN "ok" ELSE "fail")
          /\ runStep' = IF success /\ state = "Succeeded"
                        THEN runStep + 1 ELSE runStep
          /\ aks_pc' = IF success /\ state = "Succeeded"
                       THEN "poll" ELSE "sleep"
    /\ UNCHANGED <<environment, runPhase, verify_i, exit_code, installAll,
                   podsVars, totalVars, licenseVars, helmVars, lbVars,
                   dispatchVars, hostsVars, healthVars>>

\* print("Still creating cluster..."); time.sleep(30); back to the query
AksSleep ==
    /\ runPhase = "prereq"
    /\ environment = "Azure"
    /\ aks_pc = "sleep"
    /\ aks_pc' = "poll"
    /\ UNCHANGED <<prereqVars, provisioningState, installAll, podsVars,
                   totalVars, licenseVars, helmVars, lbVars, dispatchVars,
                   hostsVars, healthVars>>

\* for i in range(max_retries): kubectl get deployment ...;
\* if success and "1/1" in output: break
AwsVerify ==
    /\ runPhase = "prereq"
    /\ environment = "AWS"
    /\ runStep <= Len(AwsSteps)
    /\ AwsSteps[runStep].mode = "aws_verify"
    /\ \E ready \in BOOLEAN :
          /\ Executed(AwsSteps[runStep], IF ready THEN "ok" ELSE "fail")
          /\ IF ready \/ verify_i + 1 >= MAX_RETRIES
             THEN /\ runStep' = runStep + 1
                  /\ runPhase' = "registry"
                  /\ verify_i' = verify_i
             ELSE /\ verify_i' = verify_i + 1
                  /\ UNCHANGED <<runStep, runPhase>>
    /\ UNCHANGED <<environment, exit_code, installAll, podsVars, auxVars>>

\* setup_and_verify_kubeconfig on the remaining environment (OVH)
OvhKubeconfig ==
    /\ runPhase = "prereq"
    /\ environment = "OVH"
    /\ \E exists \in BOOLEAN, again \in BOOLEAN, verified \in BOOLEAN :
          IF ~exists
          THEN \* "Do you want to try again?"
               /\ runPhase' = IF again THEN "prereq" ELSE "exited"
               /\ exit_code' = IF again THEN exit_code ELSE "1"
               /\ UNCHANGED <<failed, critFail, afterCrit, lastAnswer>>
          ELSE \* kubectl config use-context; verify_kubeconfig()
               /\ Executed(Cmd("kubectl get namespaces", "other", "ignore"),
                           IF verified THEN "ok" ELSE "fail")
               /\ runPhase' = IF verified THEN "registry" ELSE "prereq"
               /\ exit_code' = exit_code
    /\ UNCHANGED <<environment, runStep, verify_i, installAll, podsVars, auxVars>>

\* handle_managed_registry, handle_license_and_user_data, install_hopsworks,
\* finalize_installation: the phases of run() that follow the prerequisites
LaterPhase ==
    /\ runPhase \in {"registry", "install", "finalize"}
    /\ \E ok \in BOOLEAN :
          /\ Executed(Cmd(runPhase, "other", "exit"), IF ok THEN "ok" ELSE "fail")
          /\ IF runPhase = "finalize"
             THEN /\ runPhase' = "exited"
                  /\ exit_code' = "0"
             ELSE IF ~ok /\ ( \/ runPhase = "install"
                              \/ runPhase = "registry" /\ environment = "AWS" )
             THEN \* install_hopsworks returns False, or boto3 raises in
                  \* setup_aws_ecr
                  /\ runPhase' = "exited"
                  /\ exit_code' = "1"
             ELSE /\ runPhase' = (CASE runPhase = "registry" -> "license"
                                    [] OTHER                 -> "finalize")
                  /\ exit_code' = exit_code
    /\ UNCHANGED <<environment, runStep, verify_i, installAll, podsVars, auxVars>>

\* str(uuid.uuid4()): the identifiers the model draws from
Uuids == {"uuid-a", "uuid-b"}

\* What urlopen does with the POST: status 200, another status (HTTPError),
\* an unreachable endpoint (URLError)
PostOutcomes == {"200", "HTTPError", "URLError"}

\* send_user_data: returns (success, installation_id)
send_user_data(uuid, post) ==
    IF post = "200"
    THEN [success |-> TRUE, installation_id |-> uuid]
    ELSE \* except (urllib.error.URLError, urllib.error.HTTPError)
         [success |-> FALSE, installation_id |-> uuid]

\* handle_license_and_user_data
HandleLicense ==
    /\ runPhase = "license"
    /\ \E skip_license \in BOOLEAN, no_user_data \in BOOLEAN,
          agreement \in BOOLEAN, uuid \in Uuids, post \in PostOutcomes :
          IF ~skip_license /\ ~agreement
          THEN \* get_license_agreement: sys.exit(1)
               /\ runPhase' = "exited"
               /\ exit_code' = "1"
               /\ UNCHANGED licenseVars
          ELSE /\ runPhase' = "install"
               /\ exit_code' = exit_code
               /\ IF no_user_data
                  THEN /\ installation_id' = "debug_mode"
                       /\ UNCHANGED <<generated_id, post_outcome>>
                  ELSE LET r == send_user_data(uuid, post)
                       IN /\ installation_id' =
                                IF r.success THEN r.installation_id
                                ELSE "unknown"
                          /\ generated_id' = r.installation_id
                          /\ post_outcome' = post
    /\ UNCHANGED <<environment, runStep, verify_i, failed, critFail,
                   afterCrit, lastAnswer, installAll, podsVars, totalVars,
                   helmVars, lateVars>>

\* State after construction, for the install flow of install-hopsworks.py
Init ==
    /\ ipc = "repo_add" /\ iresult = "none" /\ helm_error = {}
    /\ helm_success = "none"
    /\ tpc = "idle" /\ stop_event = FALSE
    /\ wpc = "idle" /\ result = "none" /\ retSite = "none"
    /\ timeout \in 0..MaxTimeout /\ elapsed = 0
    /\ override_flag = FALSE
    /\ platform \in {"posix", "win32"} /\ lpc = "idle" /\ tty = "cooked"
    /\ keyDetected = FALSE /\ interruptedAt = "none" /\ everReady = FALSE
    /\ failStreak = 0 /\ pollsAfterKey = 0
    /\ variant = "eks" /\ ppc = "idle" /\ presult = "none"
    /\ pretSite = "none" /\ ptimeout = 0 /\ pelapsed = 0 /\ snap = NoSnapshot
    /\ environment = "none" /\ runPhase = "install" /\ runStep = 0
    /\ verify_i = 0
    /\ exit_code = "none" /\ failed = {} /\ critFail = "none"
    /\ afterCrit = {} /\ lastAnswer = NoAnswer
    /\ main_pc = "idle" /\ main_args = NoArgs /\ main_environment = "none"
    /\ main_installation_id = "none" /\ main_cluster_bound = FALSE
    /\ real_commands = {} /\ dry_logged = {} /\ main_exit = "none"
    /\ fpc = "idle" /\ fin_i = 0 /\ address = "null" /\ queries = <<>>
    /\ lb_state = "absent"
    /\ run_variant = "install" /\ rpc = "idle" /\ loadbalancer_only = FALSE
    /\ installed_tools = {} /\ run_environment = "none" /\ calls = <<>>
    /\ run_exit = "none"
    /\ hosts_written = FALSE /\ hosts_printed = FALSE
    /\ hosts_return = "none"
    /\ hc_pc = "idle" /\ hc_success = FALSE /\ hc_output = <<>>
    /\ hc_result = "none"
    /\ provisioningState = "none" /\ aks_pc = "poll"
    /\ installation_id = "none" /\ generated_id = "none"
    /\ post_outcome = "none"
    /\ hpc = "idle" /\ HELM_BASE_CONFIG = <<>> /\ CLOUD_SPECIFIC_VALUES = <<>>
    /\ self_environment = "none" /\ managed_registry_info = None
    /\ sa_email = None /\ helm_command = <<>> /\ helm_command_again = <<>>
    /\ tables_before = <<>>

MainThread ==
    \/ PreStep \/ StartTicker \/ RunHelm \/ WaitReturns \/ FinSet \/ FinJoin
    \/ InstallReturned
    \/ WaitStart \/ CheckOverride \/ CheckTimeout \/ TimeoutWait
    \/ CheckStatus \/ Sleep \/ Except \/ Finally

TickerThread == TickTest \/ TickQuery \/ TickSleep

ListenerThread == ListenSetup \/ ListenTest \/ ListenKbhit \/ ListenRestore

\* What the operator does: a key typed at the terminal, Ctrl+C
Operator == ListenRead \/ Interrupt

Next == MainThread \/ TickerThread \/ ListenerThread \/ Operator

Spec == Init /\ [][Next]_vars

\* The threads are scheduled fairly; nothing obliges the operator to act.
FairSpec ==
    /\ Spec
    /\ WF_vars(MainThread)
    /\ WF_vars(TickerThread)
    /\ WF_vars(ListenerThread)

\* State at the call of wait_for_pods_ready
PodsInit ==
    /\ variant \in {"eks", "hopdeploy"}
    /\ ppc = "loop_test" /\ presult = "none" /\ pretSite = "none"
    /\ ptimeout \in PodTimeouts /\ pelapsed = 0 /\ snap = NoSnapshot
    /\ ipc = "idle" /\ iresult = "none" /\ helm_error = {}
    /\ helm_success = "none"
    /\ tpc = "idle" /\ stop_event = FALSE
    /\ wpc = "idle" /\ result = "none" /\ retSite = "none"
    /\ timeout = 0 /\ elapsed = 0 /\ override_flag = FALSE
    /\ platform = "posix" /\ lpc = "idle" /\ tty = "cooked"
    /\ keyDetected = FALSE /\ interruptedAt = "none" /\ everReady = FALSE
    /\ failStreak = 0 /\ pollsAfterKey = 0
    /\ environment = "none" /\ runPhase = "idle" /\ runStep = 0
    /\ verify_i = 0
    /\ exit_code = "none" /\ failed = {} /\ critFail = "none"
    /\ afterCrit = {} /\ lastAnswer = NoAnswer
    /\ main_pc = "idle" /\ main_args = NoArgs /\ main_environment = "none"
    /\ main_installation_id = "none" /\ main_cluster_bound = FALSE
    /\ real_commands = {} /\ dry_logged = {} /\ main_exit = "none"
    /\ fpc = "idle" /\ fin_i = 0 /\ address = "null" /\ queries = <<>>
    /\ lb_state = "absent"
    /\ run_variant = "install" /\ rpc = "idle" /\ loadbalancer_only = FALSE
    /\ installed_tools = {} /\ run_environment = "none" /\ calls = <<>>
    /\ run_exit = "none"
    /\ hosts_written = FALSE /\ hosts_printed = FALSE
    /\ hosts_return = "none"
    /\ hc_pc = "idle" /\ hc_success = FALSE /\ hc_output = <<>>
    /\ hc_result = "none"
    /\ provisioningState = "none" /\ aks_pc = "poll"
    /\ installation_id = "none" /\ generated_id = "none"
    /\ post_outcome = "none"
    /\ hpc = "idle" /\ HELM_BASE_CONFIG = <<>> /\ CLOUD_SPECIFIC_VALUES = <<>>
    /\ self_environment = "none" /\ managed_registry_info = None
    /\ sa_email = None /\ helm_command = <<>> /\ helm_command_again = <<>>
    /\ tables_before = <<>>

PodsNext == PodsLoopTest \/ PodsPoll \/ PodsSleep \/ PodsPrompt

SpecPods == PodsInit /\ [][PodsNext]_vars

\* State when run() shows the environment menu
PrereqInit ==
    /\ environment = "none" /\ runPhase = "menu" /\ runStep = 0
    /\ verify_i = 0
    /\ exit_code = "none" /\ failed = {} /\ critFail = "none"
    /\ afterCrit = {} /\ lastAnswer = NoAnswer
    /\ main_pc = "idle" /\ main_args = NoArgs /\ main_environment = "none"
    /\ main_installation_id = "none" /\ main_cluster_bound = FALSE
    /\ real_commands = {} /\ dry_logged = {} /\ main_exit = "none"
    /\ fpc = "idle" /\ fin_i = 0 /\ address = "null" /\ queries = <<>>
    /\ lb_state = "absent"
    /\ run_variant = "install" /\ rpc = "idle" /\ loadbalancer_only = FALSE
    /\ installed_tools = {} /\ run_environment = "none" /\ calls = <<>>
    /\ run_exit = "none"
    /\ hosts_written = FALSE /\ hosts_printed = FALSE
    /\ hosts_return = "none"
    /\ hc_pc = "idle" /\ hc_success = FALSE /\ hc_output = <<>>
    /\ hc_result = "none"
    /\ provisioningState = "none" /\ aks_pc = "poll"
    /\ installation_id = "none" /\ generated_id = "none"
    /\ post_outcome = "none"
    /\ hpc = "idle" /\ HELM_BASE_CONFIG = <<>> /\ CLOUD_SPECIFIC_VALUES = <<>>
    /\ self_environment = "none" /\ managed_registry_info = None
    /\ sa_email = None /\ helm_command = <<>> /\ helm_command_again = <<>>
    /\ tables_before = <<>>
    /\ variant = "eks" /\ ppc = "idle" /\ presult = "none"
    /\ pretSite = "none" /\ ptimeout = 0 /\ pelapsed = 0 /\ snap = NoSnapshot
    /\ ipc = "idle" /\ iresult = "none" /\ helm_error = {}
    /\ helm_success = "none"
    /\ tpc = "idle" /\ stop_event = FALSE
    /\ wpc = "idle" /\ result = "none" /\ retSite = "none"
    /\ timeout = 0 /\ elapsed = 0 /\ override_flag = FALSE
    /\ platform = "posix" /\ lpc = "idle" /\ tty = "cooked"
    /\ keyDetected = FALSE /\ interruptedAt = "none" /\ everReady = FALSE
    /\ failStreak = 0 /\ pollsAfterKey = 0

PrereqNext ==
    \/ ChooseEnvironment \/ RunStep \/ AksPoll \/ AksSleep \/ AwsVerify
    \/ OvhKubeconfig
    \/ LaterPhase \/ HandleLicense

SpecPrereq == PrereqInit /\ [][PrereqNext]_vars

\* run() is one thread: it takes its next step whenever it has one
FairPrereq == SpecPrereq /\ WF_vars(PrereqNext)

----------------------------------------------------------------------------
\* Observations used by the properties of the readiness monitor

Interrupted == interruptedAt # "none"

Returned == wpc \in {"finally", "done"}

C6_QueryFailureIsTransient ==
    [][(wpc = "status" /\ wpc' \in {"sleep", "finally"} /\ failStreak' > 0)
          => (wpc' = "sleep" /\ result' = "none")]_vars

C6_Witness == failStreak = MaxFails /\ wpc = "sleep" /\ result = "none"

\* C7: a KeyboardInterrupt raised while the monitor polls, sleeps or is
\* blocked after the timeout ends in the return value False; it does not
\* leave the monitor as an exception.
C7_InterruptReturnsFalse ==
    /\ Interrupted => wpc \in {"except", "finally", "done"}
    /\ (Interrupted /\ Returned) => (result = "False" /\ retSite = "interrupt")

C7_Witness == interruptedAt = "blocked" /\ wpc = "done" /\ result = "False"

\* C8: no background worker is alive once the function that started it has
\* returned.
C8_WorkersJoined ==
    /\ wpc = "done" => lpc \in {"idle", "done"}
    /\ ipc = "done" => (tpc \in {"idle", "done"} /\ lpc \in {"idle", "done"})

\* C9: the status ticker and the readiness monitor never query the cluster
\* at the same time.
C9_OnePollerAtATime == ~(tpc = "query" /\ wpc = "status")

----------------------------------------------------------------------------
\* Properties of wait_for_pods_ready

AllCriticalNamesReady == CriticalNames \subseteq snap.namesReady

\* C3: READY is declared only in a cycle in which the ratio has reached the
\* threshold and each critical name has a ready pod.
C3_ReadyOnlyIfEachCriticalReady ==
    pretSite = "ready" =>
        /\ snap.polled
        /\ RatioReached(snap.ready_pods, snap.total_pods)
        /\ AllCriticalNamesReady

\* C4: a cycle that finds pods, the ratio at or above the threshold, each
\* critical name with a ready pod and no critical pod unready ends with
\* READY and the return value True, however many ready pods match a
\* critical name.
C4_ReadyWhenRatioAndCriticalReady ==
    ( /\ snap.polled /\ snap.total_pods > 0
      /\ RatioReached(snap.ready_pods, snap.total_pods)
      /\ AllCriticalNamesReady
      /\ snap.criticalNotReady = 0 )
    => (ppc = "done" /\ pretSite = "ready" /\ presult = "True")

----------------------------------------------------------------------------
\* Properties of the prerequisite paths

\* C10: when a cluster-creation step or a credential step has failed, the
\* run has exited with code 1 and no later command was executed.
C10_FailFastOnClusterOrCredentialFailure ==
    critFail # "none" =>
        /\ runPhase = "exited"
        /\ exit_code = "1"
        /\ afterCrit = {}

----------------------------------------------------------------------------
\* The bucket, registry-repository, role and service-account creation
\* commands of the prerequisite paths
CreationSteps ==
    {"aws s3 mb", "aws ecr create-repository", "gcloud iam roles create",
     "gcloud iam service-accounts create",
     "gcloud artifacts repositories create"}

\* C11: a creation command that answers "already exists" is treated as
\* success: the run does not exit on it.
C11_AlreadyExistsIsSuccess ==
    (lastAnswer.name \in CreationSteps /\ lastAnswer.outcome = "exists")
        => runPhase # "exited"

----------------------------------------------------------------------------
----------------------------------------------------------------------------
\* total-install.py: main() and the functions it calls.

\* ENV_CONFIGS: ingress_class and setup_cmd of each environment
ENV_CONFIGS_ovh_without_ingress_class ==
    [ AWS   |-> [ingress_class |-> "alb",
                 annotations |->
                    {<<"alb.ingress.kubernetes.io/scheme", "internet-facing">>,
                     <<"service.beta.kubernetes.io/aws-load-balancer-scheme",
                       "internet-facing">>},
                 setup_cmd |-> "helm install aws-load-balancer-controller"],
      GCP   |-> [ingress_class |-> "gce",
                 annotations |-> {<<"kubernetes.io/ingress.class", "gce">>},
                 setup_cmd |-> "helm install ingress-nginx"],
      OVH   |-> [ingress_class |-> "",
                 annotations |-> {},
                 setup_cmd |-> "helm install ingress-nginx"],
      Azure |-> [ingress_class |-> "nginx",
                 annotations |-> {},
                 setup_cmd |-> "helm install ingress-nginx"] ]

ENV_CONFIGS ==
    [ AWS   |-> [ingress_class |-> "alb",
                 annotations |->
                    {<<"alb.ingress.kubernetes.io/scheme", "internet-facing">>,
                     <<"service.beta.kubernetes.io/aws-load-balancer-scheme",
                       "internet-facing">>},
                 setup_cmd |-> "helm install aws-load-balancer-controller"],
      GCP   |-> [ingress_class |-> "gce",
                 annotations |-> {<<"kubernetes.io/ingress.class", "gce">>},
                 setup_cmd |-> "helm install ingress-nginx"],
      OVH   |-> [ingress_class |-> "nginx",
                 annotations |-> {},
                 setup_cmd |-> "helm install ingress-nginx"],
      Azure |-> [ingress_class |-> "nginx",
                 annotations |-> {},
                 setup_cmd |-> "helm install ingress-nginx"] ]

\* environments = list(ENV_CONFIGS.keys()) + ["On-Premise/VM"]
MenuEnvironments == DOMAIN ENV_CONFIGS \cup {"On-Premise/VM"}

\* The flag combinations parse_arguments can return
ArgSets ==
    [dry_run : BOOLEAN, ingress_only : BOOLEAN, no_user_data : BOOLEAN,
     skip_license : BOOLEAN]

\* The commands that change the cluster, the cloud account or the host
MutatingCommands ==
    {"helm install aws-load-balancer-controller",
     "helm install ingress-nginx",
     "helm upgrade --install hopsworks-release",
     "eksctl create iamserviceaccount",
     "write /etc/hosts",
     "sudo tee -a /etc/hosts"}

\* run_command(command, dry_run=...): ok is the answer of the real process
run_command_total(command, dry_run, ok) ==
    IF dry_run
    THEN [success |-> TRUE, real |-> {}, logged |-> {command}]
    ELSE [success |-> ok, real |-> {command}, logged |-> {}]

\* A function that runs the commands cmds in order and returns False at the
\* first failure; n commands succeed before the first failure (n = Len(cmds):
\* none fails)
RunAll(cmds, dry_run, n) ==
    LET last == IF dry_run THEN Len(cmds) ELSE Min(n + 1, Len(cmds))
        r(i) == run_command_total(cmds[i], dry_run, i <= n)
    IN [success |-> \A i \in 1..last : r(i).success,
        real    |-> UNION {r(i).real : i \in 1..last},
        logged  |-> UNION {r(i).logged : i \in 1..last}]

\* The commands of create_aws_load_balancer_controller
AwsLbcCommands ==
    <<"helm repo add eks", "helm repo update",
      "eksctl create iamserviceaccount",
      "helm install aws-load-balancer-controller">>

\* The commands of install_hopsworks that precede the helm command
InstallPreCommands ==
    <<"helm repo add hopsworks", "helm repo update",
      "helm pull hopsworks/hopsworks">>

\* main() records what a called function has run
Ran(r) ==
    /\ real_commands' = real_commands \cup r.real
    /\ dry_logged' = dry_logged \cup r.logged

\* check_required_tools(); parse_arguments(); get_deployment_environment()
MainChoose ==
    /\ main_pc = "menu"
    /\ \E env \in MenuEnvironments : main_environment' = env
    /\ main_pc' = IF main_args.ingress_only THEN "ingress" ELSE "license"
    /\ UNCHANGED <<main_args, main_installation_id, main_cluster_bound,
                   real_commands, dry_logged, main_exit,
                   installAll, podsVars, prereqVars, licenseVars,
                   helmVars, lateVars>>

\* if not args.skip_license: get_license_agreement()
MainLicense ==
    /\ main_pc = "license"
    /\ \E agreement \in BOOLEAN :
          IF ~main_args.skip_license /\ ~agreement
          THEN main_pc' = "exited" /\ main_exit' = "1"
          ELSE main_pc' = "user_data" /\ main_exit' = main_exit
    /\ UNCHANGED <<main_args, main_environment, main_installation_id,
                   main_cluster_bound, real_commands, dry_logged,
                   installAll, podsVars, prereqVars, licenseVars,
                   helmVars, lateVars>>

\* if not args.no_user_data: send_user_data(...) else "debug_mode"
MainUserData ==
    /\ main_pc = "user_data"
    /\ \E success \in BOOLEAN :
          main_installation_id' =
              IF main_args.no_user_data THEN "debug_mode"
              ELSE IF success THEN "uuid4" ELSE "unknown"
    /\ main_pc' = "kubeconfig"
    /\ UNCHANGED <<main_args, main_environment, main_cluster_bound,
                   real_commands, dry_logged, main_exit,
                   installAll, podsVars, prereqVars, licenseVars,
                   helmVars, lateVars>>

\* setup_kubeconfig(environment): its commands are run without dry_run
setup_kubeconfig(env, ok1, ok2) ==
    CASE env = "AWS" ->
           [success |-> ok1 \/ ok2,
            real |-> IF ok1 THEN {"aws eks get-token"}
                     ELSE {"aws eks get-token", "aws eks update-kubeconfig"}]
      [] env = "OVH" ->
           [success |-> TRUE, real |-> {}]
      [] env = "GCP" ->
           [success |-> ok1,
            real |-> {"gcloud container clusters get-credentials"}]
      [] env = "Azure" ->
           [success |-> ok1, real |-> {"az aks get-credentials"}]
      [] OTHER ->
           \* os.path.exists(kubeconfig_path), shutil.copy; every branch
           \* returns, so the os.chmod(default_kubeconfig, 0o600) that
           \* follows the branches is never reached
           [success |-> ok1,
            real |-> IF ok1 THEN {"copy kubeconfig"} ELSE {}]

\* kubeconfig, cluster_name, region = setup_kubeconfig(environment)
MainKubeconfig ==
    /\ main_pc = "kubeconfig"
    /\ \E ok1 \in BOOLEAN, ok2 \in BOOLEAN :
          LET r == setup_kubeconfig(main_environment, ok1, ok2)
          IN /\ real_commands' = real_commands \cup r.real
             /\ IF r.success
                THEN /\ main_pc' = IF main_environment = "AWS"
                                   THEN "aws_lbc" ELSE "install_pre"
                     /\ main_exit' = main_exit
                ELSE /\ main_pc' = "exited"
                     /\ main_exit' = "1"
    /\ main_cluster_bound' = TRUE
    /\ UNCHANGED <<main_args, main_environment, main_installation_id,
                   dry_logged, installAll, podsVars, prereqVars, licenseVars,
                   helmVars, lateVars>>

\* create_aws_load_balancer_controller(cluster_name, region, "kube-system",
\* args.dry_run); a failure is only reported
MainAwsLbc ==
    /\ main_pc = "aws_lbc"
    /\ \E n \in 0..Len(AwsLbcCommands) :
          Ran(RunAll(AwsLbcCommands, main_args.dry_run, n))
    /\ main_pc' = "install_pre"
    /\ UNCHANGED <<main_args, main_environment, main_installation_id,
                   main_cluster_bound, main_exit,
                   installAll, podsVars, prereqVars, licenseVars,
                   helmVars, lateVars>>

\* install_hopsworks: helm repo add, helm repo update, helm pull
MainInstallPre ==
    /\ main_pc = "install_pre"
    /\ \E n \in 0..Len(InstallPreCommands) :
          LET r == RunAll(InstallPreCommands, main_args.dry_run, n)
          IN /\ Ran(r)
             /\ IF r.success
                THEN main_pc' = "install_helm" /\ main_exit' = main_exit
                ELSE main_pc' = "exited" /\ main_exit' = "1"
    /\ UNCHANGED <<main_args, main_environment, main_installation_id,
                   main_cluster_bound, installAll, podsVars, prereqVars, licenseVars,
                   helmVars, lateVars>>

\* install_hopsworks: the helm command is built with
\* ENV_CONFIGS[environment]['ingress_class'] and run while the status
\* thread polls; the thread is stopped and joined before the result is used
MainInstallHelm ==
    /\ main_pc = "install_helm"
    /\ IF main_environment \notin DOMAIN ENV_CONFIGS
       THEN \* KeyError
            /\ main_pc' = "exited"
            /\ main_exit' = "raised"
            /\ UNCHANGED <<real_commands, dry_logged>>
       ELSE \E ok \in BOOLEAN :
               LET r == run_command_total("helm upgrade --install hopsworks-release",
                                          main_args.dry_run, ok)
                   tick == run_command_total("kubectl get pods --no-headers",
                                             FALSE, TRUE)
               IN /\ real_commands' = real_commands \cup r.real \cup tick.real
                  /\ dry_logged' = dry_logged \cup r.logged
                  /\ IF r.success
                     THEN main_pc' = "wait_pods" /\ main_exit' = main_exit
                     ELSE main_pc' = "exited" /\ main_exit' = "1"
    /\ UNCHANGED <<main_args, main_environment, main_installation_id,
                   main_cluster_bound, installAll, podsVars, prereqVars, licenseVars,
                   helmVars, lateVars>>

\* return wait_for_pods_ready(namespace, dry_run=dry_run)
MainWaitPods ==
    /\ main_pc = "wait_pods"
    /\ \E ready \in BOOLEAN :
          IF main_args.dry_run
          THEN /\ main_pc' = "ingress"
               /\ UNCHANGED <<real_commands, main_exit>>
          ELSE /\ real_commands' = real_commands \cup {"kubectl get pods -o json"}
               /\ IF ready
                  THEN main_pc' = "ingress" /\ main_exit' = main_exit
                  ELSE main_pc' = "exited" /\ main_exit' = "1"
    /\ UNCHANGED <<main_args, main_environment, main_installation_id,
                   main_cluster_bound, dry_logged,
                   installAll, podsVars, prereqVars, licenseVars,
                   helmVars, lateVars>>

\* setup_ingress(environment, args.namespace, cluster_name, region): the
\* call passes no dry_run
MainSetupIngress ==
    /\ main_pc = "ingress"
    /\ IF ~main_cluster_bound
       THEN \* UnboundLocalError: cluster_name is assigned only when
            \* args.ingress_only is false
            /\ main_pc' = "exited"
            /\ main_exit' = "raised"
            /\ UNCHANGED <<real_commands, dry_logged>>
       ELSE /\ IF main_environment = "AWS"
               THEN \E n \in 0..Len(AwsLbcCommands) :
                       Ran(RunAll(AwsLbcCommands, FALSE, n))
               ELSE IF main_environment \in DOMAIN ENV_CONFIGS
               THEN \E ok \in BOOLEAN :
                       Ran(run_command_total(
                              ENV_CONFIGS[main_environment].setup_cmd,
                              FALSE, ok))
               ELSE UNCHANGED <<real_commands, dry_logged>>
            /\ main_pc' = "ingress_address"
            /\ main_exit' = main_exit
    /\ UNCHANGED <<main_args, main_environment, main_installation_id,
                   main_cluster_bound, installAll, podsVars, prereqVars, licenseVars,
                   helmVars, lateVars>>

\* ingress_address = wait_for_ingress_address(args.namespace, dry_run=...)
MainWaitIngress ==
    /\ main_pc = "ingress_address"
    /\ real_commands' = IF main_args.dry_run THEN real_commands
                        ELSE real_commands \cup {"kubectl get ingress"}
    /\ main_pc' = "url"
    /\ UNCHANGED <<main_args, main_environment, main_installation_id,
                   main_cluster_bound, dry_logged, main_exit,
                   installAll, podsVars, prereqVars, licenseVars,
                   helmVars, lateVars>>

\* What open("/etc/hosts", "a") and the write can do
WriteOutcomes == {"ok", "PermissionError", "OSError"}

\* update_hosts_file(ingress_address, ingress_host, dry_run): the entry is
\* printed before the question; only PermissionError is caught
update_hosts_file(dry_run, update_hosts, write, use_sudo, sudo_ok) ==
    IF dry_run
    THEN [printed |-> FALSE, written |-> FALSE, raised |-> FALSE,
          real |-> {}, logged |-> {"write /etc/hosts"}]
    ELSE [printed |-> TRUE,
          written |-> /\ update_hosts
                      /\ \/ write = "ok"
                         \/ write = "PermissionError" /\ use_sudo /\ sudo_ok,
          raised |-> update_hosts /\ write = "OSError",
          real |-> IF ~update_hosts THEN {}
                   ELSE IF write = "ok" THEN {"write /etc/hosts"}
                   ELSE IF write = "PermissionError" /\ use_sudo
                        THEN {"sudo tee -a /etc/hosts"}
                   ELSE {},
          logged |-> {}]

\* hopsworks_url = get_hopsworks_url(...); update_hosts_file(...)
MainUpdateHosts ==
    /\ main_pc = "url"
    /\ \E update_hosts \in BOOLEAN, write \in WriteOutcomes,
          use_sudo \in BOOLEAN, sudo_ok \in BOOLEAN :
          LET r == update_hosts_file(main_args.dry_run, update_hosts, write,
                                     use_sudo, sudo_ok)
          IN /\ dry_logged' = dry_logged \cup r.logged
             /\ real_commands' =
                   real_commands
                      \cup (IF main_args.dry_run THEN {}
                            ELSE {"kubectl get ingress"})
                      \cup r.real
             /\ hosts_printed' = r.printed
             /\ hosts_written' = r.written
             /\ hosts_return' = IF r.raised THEN "raised" ELSE "returned"
             /\ main_pc' = IF r.raised THEN "exited" ELSE "health"
             /\ main_exit' = IF r.raised THEN "raised" ELSE main_exit
    /\ UNCHANGED <<main_args, main_environment, main_installation_id,
                   main_cluster_bound,
                   installAll, podsVars, prereqVars, licenseVars,
                   helmVars, lbVars, dispatchVars, healthVars, aksVars>>

\* health_check(args.namespace, args.dry_run) and the closing messages
MainHealthCheck ==
    /\ main_pc = "health"
    /\ real_commands' = IF main_args.dry_run THEN real_commands
                        ELSE real_commands \cup {"kubectl get pods -o jsonpath"}
    /\ main_pc' = "exited"
    /\ main_exit' = "0"
    /\ UNCHANGED <<main_args, main_environment, main_installation_id,
                   main_cluster_bound, dry_logged,
                   installAll, podsVars, prereqVars, licenseVars,
                   helmVars, lateVars>>

\* State when main() of total-install.py starts
TotalInit ==
    /\ main_pc = "menu" /\ main_args \in ArgSets /\ main_environment = "none"
    /\ main_installation_id = "none" /\ main_cluster_bound = FALSE
    /\ real_commands = {} /\ dry_logged = {} /\ main_exit = "none"
    /\ fpc = "idle" /\ fin_i = 0 /\ address = "null" /\ queries = <<>>
    /\ lb_state = "absent"
    /\ run_variant = "install" /\ rpc = "idle" /\ loadbalancer_only = FALSE
    /\ installed_tools = {} /\ run_environment = "none" /\ calls = <<>>
    /\ run_exit = "none"
    /\ hosts_written = FALSE /\ hosts_printed = FALSE
    /\ hosts_return = "none"
    /\ hc_pc = "idle" /\ hc_success = FALSE /\ hc_output = <<>>
    /\ hc_result = "none"
    /\ provisioningState = "none" /\ aks_pc = "poll"
    /\ installation_id = "none" /\ generated_id = "none"
    /\ post_outcome = "none"
    /\ hpc = "idle" /\ HELM_BASE_CONFIG = <<>> /\ CLOUD_SPECIFIC_VALUES = <<>>
    /\ self_environment = "none" /\ managed_registry_info = None
    /\ sa_email = None /\ helm_command = <<>> /\ helm_command_again = <<>>
    /\ tables_before = <<>>
    /\ environment = "none" /\ runPhase = "idle" /\ runStep = 0
    /\ verify_i = 0
    /\ exit_code = "none" /\ failed = {} /\ critFail = "none"
    /\ afterCrit = {} /\ lastAnswer = NoAnswer
    /\ variant = "eks" /\ ppc = "idle" /\ presult = "none"
    /\ pretSite = "none" /\ ptimeout = 0 /\ pelapsed = 0 /\ snap = NoSnapshot
    /\ ipc = "idle" /\ iresult = "none" /\ helm_error = {}
    /\ helm_success = "none"
    /\ tpc = "idle" /\ stop_event = FALSE
    /\ wpc = "idle" /\ result = "none" /\ retSite = "none"
    /\ timeout = 0 /\ elapsed = 0 /\ override_flag = FALSE
    /\ platform = "posix" /\ lpc = "idle" /\ tty = "cooked"
    /\ keyDetected = FALSE /\ interruptedAt = "none" /\ everReady = FALSE
    /\ failStreak = 0 /\ pollsAfterKey = 0

TotalNext ==
    \/ MainChoose \/ MainLicense \/ MainUserData \/ MainKubeconfig
    \/ MainAwsLbc \/ MainInstallPre \/ MainInstallHelm \/ MainWaitPods
    \/ MainSetupIngress \/ MainWaitIngress \/ MainUpdateHosts
    \/ MainHealthCheck

SpecTotal == TotalInit /\ [][TotalNext]_vars

\* C12: in dry-run mode no mutating command reaches the real process
\* execution path (subprocess.run, a write to the hosts file).
C12_DryRunExecutesNoMutatingCommand ==
    main_args.dry_run => real_commands \cap MutatingCommands = {}

----------------------------------------------------------------------------
\* The error text of the helm command contains an allow-listed message
HelmErrorAllowListed == \E err \in KNOWN_NONFATAL_ERRORS : err \in helm_error

\* C13: after a failed helm command the readiness wait is started if and
\* only if the error text contains an allow-listed message; otherwise
\* install_hopsworks returns False without waiting and run() exits with 1.
C13_HelmFailureProceedsIffAllowListed ==
    helm_success = "False" =>
        /\ (wpc # "idle") <=> HelmErrorAllowListed
        /\ ~HelmErrorAllowListed =>
              /\ iresult = "False"
              /\ runPhase \in {"install", "exited"}
              /\ (runPhase = "exited" => exit_code = "1")

C13_Witness ==
    /\ helm_success = "False" /\ ~HelmErrorAllowListed /\ helm_error # {}
    /\ wpc = "idle" /\ runPhase = "exited" /\ exit_code = "1"

\* The other half of the case: a failed helm command with an allow-listed
\* message, followed by a readiness wait that has returned
C13_WitnessAllowListed ==
    /\ helm_success = "False" /\ HelmErrorAllowListed
    /\ "timed out waiting for the condition" \in helm_error
    /\ wpc = "done"

----------------------------------------------------------------------------
\* C14: after a failed telemetry POST the flow continues and the
\* installation identifier is the one send_user_data generated.
C14_FailedPostKeepsGeneratedId ==
    post_outcome \in {"HTTPError", "URLError"} =>
        /\ runPhase # "license"
        /\ generated_id \in Uuids
        /\ installation_id = generated_id

----------------------------------------------------------------------------
----------------------------------------------------------------------------
\* HopsworksInstaller.construct_helm_command and its two parameter tables.

\* HELM_BASE_CONFIG as written in the source
HelmBaseConfigSource ==
    << Item("hopsworks.service.worker.external.https.type", Str("LoadBalancer")),
       Item("global._hopsworks.externalLoadBalancers.enabled", Str("true")),
       Item("global._hopsworks.imagePullPolicy", Str("Always")),
       Item("hopsworks.replicaCount.worker", Str("1")),
       Item("rondb.clusterSize.activeDataReplicas", Str("1")),
       Item("hopsfs.datanode.count", Str("2")) >>

\* CLOUD_SPECIFIC_VALUES as written in the source
CloudSpecificValuesSource ==
    [ AWS |->
        << Item("global._hopsworks.cloudProvider", Str("AWS")),
           Item("global._hopsworks.ingressController.type", Str("none")),
           Item("global._hopsworks.managedDockerRegistery.enabled", Str("true")),
           Item("global._hopsworks.managedDockerRegistery.credHelper.enabled", Str("true")),
           Item("global._hopsworks.managedDockerRegistery.credHelper.secretName", Str("awsregcred")),
           Item("global._hopsworks.storageClassName", Str("ebs-gp3")),
           Item("hopsworks.variables.docker_operations_managed_docker_secrets", Str("awsregcred")),
           Item("hopsworks.variables.docker_operations_image_pull_secrets", Str("awsregcred")),
           Item("hopsworks.dockerRegistry.preset.secrets[0]", Str("awsregcred")),
           Item("externalLoadBalancers",
                Dict(<< Item("enabled", Bool(TRUE)),
                        Item("class", None),
                        Item("annotations",
                             Dict(<< Item("service.beta.kubernetes.io/aws-load-balancer-scheme",
                                          Str("internet-facing")) >>)) >>)) >>,
      GCP |->
        << Item("global._hopsworks.cloudProvider", Str("GCP")),
           Item("global._hopsworks.managedDockerRegistery.enabled", Str("true")),
           Item("global._hopsworks.managedDockerRegistery.credHelper.enabled", Str("true")),
           Item("global._hopsworks.managedDockerRegistery.credHelper.configMap", Str("docker-config")),
           Item("global._hopsworks.managedDockerRegistery.credHelper.secretName", Str("gcrregcred")),
           Item("hopsworks.variables.docker_operations_managed_docker_secrets", Str("gcrregcred")),
           Item("hopsworks.variables.docker_operations_image_pull_secrets", Str("gcrregcred")),
           Item("hopsworks.dockerRegistry.preset.secrets[0]", Str("gcrregcred")),
           Item("serviceAccount.name", Str("hopsworks-sa")) >>,
      Azure |->
        << Item("global._hopsworks.cloudProvider", Str("AZURE")),
           Item("global._hopsworks.managedDockerRegistery.enabled", Str("true")),
           Item("global._hopsworks.ingressController.type", Str("none")),
           Item("global._hopsworks.imagePullSecretName", Str("regcred")),
           Item("global._hopsworks.minio.enabled", Str("true")),
           Item("serviceAccount.name", Str("hopsworks-sa")),
           Item("serviceAccount.create", Str("false")),
           Item("hopsworks.service.worker.external.https.type", Str("LoadBalancer")),
           Item("hopsworks.service.worker.external.https.annotations.service\\.beta\\.kubernetes\\.io/azure-load-balancer-internal",
                Str("false")) >>,
      OVH |->
        << Item("global._hopsworks.cloudProvider", Str("OVH")) >> ]

\* The keys of the dynamically resolved values
RegistryDomainKey    == "global._hopsworks.managedDockerRegistery.domain"
RegistryNamespaceKey == "global._hopsworks.managedDockerRegistery.namespace"
ServiceAccountKey    == "serviceAccount.annotations.iam\\.gke\\.io/gcp-service-account"

\* bool(value) of Python
Truthy(value) ==
    CASE value.kind = "None" -> FALSE
      [] value.kind = "bool" -> value.b
      [] value.kind = "str"  -> value.s # ""
      [] OTHER               -> Len(value.d) > 0

\* The values cloud_config.update({...}) adds for the registry and identity
DynamicValues(env, registry, email) ==
    IF env = "AWS" /\ Truthy(registry)
    THEN << Item(RegistryDomainKey, DictGet(registry.d, "domain")),
            Item(RegistryNamespaceKey, DictGet(registry.d, "namespace")) >>
    ELSE IF env = "GCP" /\ Truthy(registry)
    THEN << Item(RegistryDomainKey, DictGet(registry.d, "domain")),
            Item(RegistryNamespaceKey, DictGet(registry.d, "namespace")),
            Item(ServiceAccountKey, email) >>
    ELSE << >>

\* The formatting of one value of flat_values
render_value_unquoted(value) ==
    CASE value.kind = "None" -> "null"
      [] value.kind = "bool" -> (IF value.b THEN "true" ELSE "false")
      [] OTHER               -> value.s

render_value(value) ==
    CASE value.kind = "None" -> "null"
      [] value.kind = "bool" -> (IF value.b THEN "true" ELSE "false")
      [] OTHER               -> "\"" \o value.s \o "\""

\* One element of the list helm_command
Tok(flag, key, value) == [flag |-> flag, key |-> key, value |-> value]

\* helm_command.append(f"--set {key}={value}") for each item of flat_values
SetFlags(flat_values) ==
    [i \in 1..Len(flat_values) |->
        Tok("--set", flat_values[i].k, render_value(flat_values[i].v))]

\* construct_helm_command: the merge of the layers.  The result names the
\* merged dict helm_values, the dict flat_values, the list helm_command and
\* the two module level tables as the call leaves them.
construct_helm_command(base, cloud, env, namespace, registry, email) ==
    LET base_copy    == dict_copy(base)
        in_table     == env \in DOMAIN cloud
        cloud_copy   == IF in_table THEN dict_copy(cloud[env])
                        ELSE dict_copy(<< >>)
        cloud_config == dict_update(cloud_copy.value,
                                    DynamicValues(env, registry, email))
        helm_values  == IF in_table
                        THEN dict_update(base_copy.value, cloud_config)
                        ELSE base_copy.value
        flat_values  == flatten_dict(helm_values, "")
    IN [ helm_values  |-> helm_values,
         flat_values  |-> flat_values,
         helm_command |->
             << Tok("helm upgrade --install hopsworks-release hopsworks/hopsworks", "", ""),
                Tok("--namespace", "", namespace),
                Tok("--create-namespace", "", ""),
                Tok("--values hopsworks/values.yaml", "", "") >>
             \o SetFlags(flat_values)
             \o << Tok("--timeout 60m", "", ""), Tok("--devel", "", "") >>,
         base_after   |-> IF base_copy.shares THEN helm_values ELSE base,
         cloud_after  |-> IF in_table /\ cloud_copy.shares
                          THEN [cloud EXCEPT ![env] = cloud_config]
                          ELSE cloud ]

\* The tables the merge is explored with: the tables of the source, and the
\* same tables with one more entry for the registry domain, written as a
\* dotted key or as a nested mapping
TableForms == {"source", "dotted", "nested"}

ExtraEntry(form, value) ==
    CASE form = "dotted" ->
           << Item(RegistryDomainKey, Str(value)) >>
      [] form = "nested" ->
           << Item("global._hopsworks.managedDockerRegistery",
                   Dict(<< Item("domain", Str(value)) >>)) >>
      [] OTHER -> << >>

BaseConfigs ==
    { HelmBaseConfigSource \o ExtraEntry(form, "base.registry.example") :
        form \in TableForms }

CloudValues ==
    { [env \in DOMAIN CloudSpecificValuesSource |->
          CloudSpecificValuesSource[env]
             \o ExtraEntry(form, "profile.registry.example")] :
        form \in TableForms }

\* self.managed_registry_info: None until a registry step has set it
RegistryInfos ==
    { None,
      Dict(<< Item("domain", Str("resolved.registry.example")),
              Item("namespace", Str("hopsworks-cluster1")) >>) }

\* self.sa_email: None until setup_gke_prerequisites has set it
SaEmails == { None, Str("hopsworksai-instances@p1.iam.gserviceaccount.com") }

\* self.environment: None ("none") until the menu choice
HelmEnvironments == Environments \cup {"none"}

\* helm_command = self.construct_helm_command()
Construct ==
    /\ hpc = "ready"
    /\ LET r == construct_helm_command(HELM_BASE_CONFIG, CLOUD_SPECIFIC_VALUES,
                                       self_environment, "hopsworks",
                                       managed_registry_info, sa_email)
       IN /\ helm_command' = r.helm_command
          /\ HELM_BASE_CONFIG' = r.base_after
          /\ CLOUD_SPECIFIC_VALUES' = r.cloud_after
    /\ hpc' = "built"
    /\ UNCHANGED <<self_environment, managed_registry_info, sa_email,
                   helm_command_again, tables_before,
                   installAll, podsVars, prereqVars, totalVars, licenseVars,
                   lateVars>>

\* A second call on the same installer
ConstructAgain ==
    /\ hpc = "built"
    /\ LET r == construct_helm_command(HELM_BASE_CONFIG, CLOUD_SPECIFIC_VALUES,
                                       self_environment, "hopsworks",
                                       managed_registry_info, sa_email)
       IN /\ helm_command_again' = r.helm_command
          /\ HELM_BASE_CONFIG' = r.base_after
          /\ CLOUD_SPECIFIC_VALUES' = r.cloud_after
    /\ hpc' = "rebuilt"
    /\ UNCHANGED <<self_environment, managed_registry_info, sa_email,
                   helm_command, tables_before,
                   installAll, podsVars, prereqVars, totalVars, licenseVars,
                   lateVars>>

\* State before the first call of construct_helm_command
HelmInit ==
    /\ hpc = "ready"
    /\ HELM_BASE_CONFIG \in BaseConfigs
    /\ CLOUD_SPECIFIC_VALUES \in CloudValues
    /\ tables_before = <<HELM_BASE_CONFIG, CLOUD_SPECIFIC_VALUES>>
    /\ self_environment \in HelmEnvironments
    /\ managed_registry_info \in RegistryInfos
    /\ sa_email \in SaEmails
    /\ helm_command = <<>> /\ helm_command_again = <<>>
    /\ fpc = "idle" /\ fin_i = 0 /\ address = "null" /\ queries = <<>>
    /\ lb_state = "absent"
    /\ run_variant = "install" /\ rpc = "idle" /\ loadbalancer_only = FALSE
    /\ installed_tools = {} /\ run_environment = "none" /\ calls = <<>>
    /\ run_exit = "none"
    /\ hosts_written = FALSE /\ hosts_printed = FALSE
    /\ hosts_return = "none"
    /\ hc_pc = "idle" /\ hc_success = FALSE /\ hc_output = <<>>
    /\ hc_result = "none"
    /\ provisioningState = "none" /\ aks_pc = "poll"
    /\ installation_id = "none" /\ generated_id = "none"
    /\ post_outcome = "none"
    /\ main_pc = "idle" /\ main_args = NoArgs /\ main_environment = "none"
    /\ main_installation_id = "none" /\ main_cluster_bound = FALSE
    /\ real_commands = {} /\ dry_logged = {} /\ main_exit = "none"
    /\ environment = "none" /\ runPhase = "idle" /\ runStep = 0
    /\ verify_i = 0
    /\ exit_code = "none" /\ failed = {} /\ critFail = "none"
    /\ afterCrit = {} /\ lastAnswer = NoAnswer
    /\ variant = "eks" /\ ppc = "idle" /\ presult = "none"
    /\ pretSite = "none" /\ ptimeout = 0 /\ pelapsed = 0 /\ snap = NoSnapshot
    /\ ipc = "idle" /\ iresult = "none" /\ helm_error = {}
    /\ helm_success = "none"
    /\ tpc = "idle" /\ stop_event = FALSE
    /\ wpc = "idle" /\ result = "none" /\ retSite = "none"
    /\ timeout = 0 /\ elapsed = 0 /\ override_flag = FALSE
    /\ platform = "posix" /\ lpc = "idle" /\ tty = "cooked"
    /\ keyDetected = FALSE /\ interruptedAt = "none" /\ everReady = FALSE
    /\ failStreak = 0 /\ pollsAfterKey = 0

HelmNext == Construct \/ ConstructAgain

SpecHelm == HelmInit /\ [][HelmNext]_vars

----------------------------------------------------------------------------
\* The layers of the merge, each flattened on its own, for the installer
\* and the tables as they were before the call
BaseLayer == flatten_dict(tables_before[1], "")

ProviderLayer ==
    IF self_environment \in DOMAIN tables_before[2]
    THEN flatten_dict(tables_before[2][self_environment], "")
    ELSE << >>

DynamicLayer ==
    IF self_environment \in DOMAIN tables_before[2]
    THEN DynamicValues(self_environment, managed_registry_info, sa_email)
    ELSE << >>

\* The number of layers that give the path, and the value of the latest
LayersGiving(path) ==
    (IF path \in DictKeys(BaseLayer) THEN 1 ELSE 0)
    + (IF path \in DictKeys(ProviderLayer) THEN 1 ELSE 0)
    + (IF path \in DictKeys(DynamicLayer) THEN 1 ELSE 0)

LatestValue(path) ==
    IF path \in DictKeys(DynamicLayer) THEN DictGet(DynamicLayer, path)
    ELSE IF path \in DictKeys(ProviderLayer) THEN DictGet(ProviderLayer, path)
    ELSE DictGet(BaseLayer, path)

AllPaths ==
    DictKeys(BaseLayer) \cup DictKeys(ProviderLayer) \cup DictKeys(DynamicLayer)

\* The positions of helm_command that set the path
SetPositions(path) ==
    {i \in 1..Len(helm_command) :
        helm_command[i].flag = "--set" /\ helm_command[i].key = path}

----------------------------------------------------------------------------
\* The dynamically resolved values the command of an environment needs
RequiredDynamicKeys(env) ==
    CASE env = "AWS" -> {RegistryDomainKey, RegistryNamespaceKey}
      [] env = "GCP" -> {RegistryDomainKey, RegistryNamespaceKey,
                         ServiceAccountKey}
      [] OTHER       -> {}

\* C16: the override of every required dynamic value is emitted in the
\* command, as a placeholder when the value was never resolved.
C16_AbsentDynamicValueStillEmitted ==
    hpc = "built" =>
        \A key \in RequiredDynamicKeys(self_environment) :
            SetPositions(key) # {}

----------------------------------------------------------------------------
\* flat_values of the call, recomputed from the installer and the tables as
\* they were before it
FlatValuesBefore ==
    construct_helm_command(tables_before[1], tables_before[2],
                           self_environment, "hopsworks",
                           managed_registry_info, sa_email).flat_values

\* How the command line has to show a value
ExpectedRendering(value) ==
    IF value.kind = "None" THEN "null"
    ELSE IF value.kind = "bool" THEN (IF value.b THEN "true" ELSE "false")
    ELSE "\"" \o value.s \o "\""

\* C17: every flattened pair is rendered as exactly one --set flag, strings
\* quoted, booleans lower-cased, None as null; the timeout flag and the
\* --devel flag come last, after all --set flags.
C17_OneFlagPerPairThenTimeoutAndDevel ==
    hpc = "built" =>
        LET n == Len(helm_command)
            setAt == {i \in 1..n : helm_command[i].flag = "--set"}
        IN /\ Cardinality(setAt) = Len(FlatValuesBefore)
           /\ \A p \in 1..Len(FlatValuesBefore) :
                 /\ Cardinality(SetPositions(FlatValuesBefore[p].k)) = 1
                 /\ \A i \in SetPositions(FlatValuesBefore[p].k) :
                       helm_command[i].value =
                           ExpectedRendering(FlatValuesBefore[p].v)
           /\ n >= 2
           /\ helm_command[n - 1].flag = "--timeout 60m"
           /\ helm_command[n].flag = "--devel"
           /\ \A i \in setAt : i < n - 1

\* An AWS command built from the tables of the source: it has a boolean, a
\* None and string values
C17_Witness ==
    /\ hpc = "built" /\ self_environment = "AWS"
    /\ tables_before = <<HelmBaseConfigSource, CloudSpecificValuesSource>>
    /\ Truthy(managed_registry_info)
    /\ \E i \in 1..Len(helm_command) :
          helm_command[i].key = "externalLoadBalancers.class"
             /\ helm_command[i].value = "null"
    /\ \E i \in 1..Len(helm_command) :
          helm_command[i].key = "externalLoadBalancers.enabled"
             /\ helm_command[i].value = "true"
    /\ \E i \in 1..Len(helm_command) :
          helm_command[i].key = RegistryDomainKey
             /\ helm_command[i].value = "\"resolved.registry.example\""

----------------------------------------------------------------------------
----------------------------------------------------------------------------
\* profile.get(field, ''): a field of a provider profile, '' when the
\* profile has no such field
ProfileField(profile, field) ==
    IF field \in DOMAIN profile THEN profile[field] ELSE ""

C20_UnknownProviderBuildsNoCommand ==
    self_environment \notin Environments =>
        (hpc \in {"idle", "ready"} /\ helm_command = << >>)

----------------------------------------------------------------------------
\* finalize_installation and get_load_balancer_address
\* (src/install-hopsworks.py)

max_retries == 12       \* max_retries of finalize_installation

notLb == <<installAll, podsVars, prereqVars, totalVars, licenseVars,
           helmVars, dispatchVars, hostsVars, healthVars, aksVars>>

\* What the cluster knows of the service hopsworks-release: no such
\* LoadBalancer service, one whose address is pending, one that was given a
\* host name, one that was given an IP address
LbStates == {"absent", "pending", "hostname", "ip"}

LbHostname == "k8s-hopsworks.elb.amazonaws.com"
LbIp == "34.90.1.2"
Addresses == {LbHostname, LbIp}

\* the values shown for a missing external address
Placeholders == {"<pending>", "<none>", ""}

\* stdout of kubectl get svc hopsworks-release
\*   -o jsonpath='{.status.loadBalancer.ingress[0].hostname}'  (or .ip)
JsonpathOutput(field, state) ==
    CASE field = "hostname" /\ state = "hostname" -> LbHostname
      [] field = "ip" /\ state = "ip"             -> LbIp
      [] OTHER                                    -> ""

\* stdout of kubectl get svc -o wide | grep LoadBalancer | grep
\* hopsworks-release, split at white space; the columns are NAME, TYPE,
\* CLUSTER-IP, EXTERNAL-IP, PORT(S), AGE, SELECTOR
WideRow(state) ==
    CASE state = "absent" -> << >>
      [] OTHER ->
          << "hopsworks-release", "LoadBalancer", "10.0.171.239",
             (CASE state = "hostname" -> LbHostname
                [] state = "ip"       -> LbIp
                [] OTHER              -> "<pending>"),
             "28181:31115/TCP", "5m", "app=hopsworks" >>

\* svc.get('status', {}).get('loadBalancer', {}).get('ingress', []) of each
\* item of kubectl get svc --field-selector type=LoadBalancer -o json
JsonIngress(state) ==
    CASE state = "absent"   -> << >>
      [] state = "pending"  -> << << >> >>
      [] state = "hostname" -> << << [hostname |-> LbHostname, ip |-> "null"] >> >>
      [] OTHER              -> << << [hostname |-> "null", ip |-> LbIp] >> >>

\* if len(parts) >= 6: external_ip = parts[5];
\* if external_ip != '<pending>' and external_ip != '<none>': return it
ScanResult(parts) ==
    IF Len(parts) >= 6 /\ parts[6] \notin {"<pending>", "<none>"}
    THEN parts[6] ELSE "null"

\* for svc in items: if ingress: return ingress[0].get('hostname') or
\* ingress[0].get('ip')
RECURSIVE StructuredResult(_)
StructuredResult(items) ==
    IF items = << >> THEN "null"
    ELSE IF Head(items) # << >>
         THEN (IF Head(items)[1].hostname # "null"
               THEN Head(items)[1].hostname ELSE Head(items)[1].ip)
         ELSE StructuredResult(Tail(items))

\* The order of the queries of get_load_balancer_address: what is tried
\* after a query that gave nothing
FallbackAfter_skips_scan(q) ==
    CASE q = "hostname"   -> "ip"
      [] q = "ip"         -> "structured"
      [] q = "scan"       -> "structured"
      [] OTHER            -> "return_none"

FallbackAfter(q) ==
    CASE q = "hostname"   -> "ip"
      [] q = "ip"         -> "scan"
      [] q = "scan"       -> "structured"
      [] OTHER            -> "return_none"

\* for i in range(max_retries): address = self.get_load_balancer_address();
\* the load balancer may have changed since the last attempt
FinLoop ==
    /\ fpc = "loop"
    /\ IF fin_i < max_retries
       THEN /\ fpc' = "hostname"
            /\ queries' = << >>
            /\ lb_state' \in LbStates
       ELSE /\ fpc' = "after_loop"
            /\ UNCHANGED <<queries, lb_state>>
    /\ UNCHANGED <<fin_i, address, notLb>>

\* for cmd in commands: success, output, _ = run_command(cmd);
\* if success and output.strip(): return output.strip()
PrimaryQuery ==
    /\ fpc \in {"hostname", "ip"}
    /\ queries' = Append(queries, fpc)
    /\ \E success \in BOOLEAN :
          LET output == JsonpathOutput(fpc, lb_state)
          IN IF success /\ output # ""
             THEN /\ address' = output
                  /\ fpc' = "returned"
             ELSE /\ fpc' = FallbackAfter(fpc)
                  /\ UNCHANGED address
    /\ UNCHANGED <<fin_i, lb_state, notLb>>

\* Fallback - check all LoadBalancer services
ScanQuery ==
    /\ fpc = "scan"
    /\ queries' = Append(queries, "scan")
    /\ \E success \in BOOLEAN :
          LET parts == IF success THEN WideRow(lb_state) ELSE << >>
          IN IF ScanResult(parts) # "null"
             THEN /\ address' = ScanResult(parts)
                  /\ fpc' = "returned"
             ELSE /\ fpc' = FallbackAfter("scan")
                  /\ UNCHANGED address
    /\ UNCHANGED <<fin_i, lb_state, notLb>>

\* Last resort - get ALL LoadBalancer services
StructuredQuery ==
    /\ fpc = "structured"
    /\ queries' = Append(queries, "structured")
    /\ \E success \in BOOLEAN, parses \in BOOLEAN :
          LET items == IF success /\ parses THEN JsonIngress(lb_state)
                       ELSE << >>
          IN IF StructuredResult(items) # "null"
             THEN /\ address' = StructuredResult(items)
                  /\ fpc' = "returned"
             ELSE /\ fpc' = FallbackAfter("structured")
                  /\ UNCHANGED address
    /\ UNCHANGED <<fin_i, lb_state, notLb>>

\* return None
ReturnNone ==
    /\ fpc = "return_none"
    /\ address' = "null"
    /\ fpc' = "returned"
    /\ UNCHANGED <<fin_i, queries, lb_state, notLb>>

\* if address: break;  if i < max_retries - 1: time.sleep(10)
FinAttemptDone ==
    /\ fpc = "returned"
    /\ IF address # "null"
       THEN /\ fpc' = "after_loop"
            /\ UNCHANGED fin_i
       ELSE /\ fpc' = "loop"
            /\ fin_i' = fin_i + 1
    /\ UNCHANGED <<address, queries, lb_state, notLb>>

\* if not address: ... return;  otherwise the access URLs are printed
FinReport ==
    /\ fpc = "after_loop"
    /\ fpc' = "done"
    /\ UNCHANGED <<fin_i, address, queries, lb_state, notLb>>

\* State at the call of finalize_installation
FinalizeInit ==
    /\ fpc = "loop" /\ fin_i = 0 /\ address = "null" /\ queries = << >>
    /\ lb_state \in LbStates
    /\ ipc = "idle" /\ iresult = "none" /\ helm_error = {}
    /\ helm_success = "none"
    /\ tpc = "idle" /\ stop_event = FALSE
    /\ wpc = "idle" /\ result = "none" /\ retSite = "none"
    /\ timeout = 0 /\ elapsed = 0 /\ override_flag = FALSE
    /\ platform = "posix" /\ lpc = "idle" /\ tty = "cooked"
    /\ keyDetected = FALSE /\ interruptedAt = "none" /\ everReady = FALSE
    /\ failStreak = 0 /\ pollsAfterKey = 0
    /\ variant = "eks" /\ ppc = "idle" /\ presult = "none"
    /\ pretSite = "none" /\ ptimeout = 0 /\ pelapsed = 0 /\ snap = NoSnapshot
    /\ environment = "none" /\ runPhase = "idle" /\ runStep = 0
    /\ verify_i = 0
    /\ exit_code = "none" /\ failed = {} /\ critFail = "none"
    /\ afterCrit = {} /\ lastAnswer = NoAnswer
    /\ main_pc = "idle" /\ main_args = NoArgs /\ main_environment = "none"
    /\ main_installation_id = "none" /\ main_cluster_bound = FALSE
    /\ real_commands = {} /\ dry_logged = {} /\ main_exit = "none"
    /\ installation_id = "none" /\ generated_id = "none"
    /\ post_outcome = "none"
    /\ hpc = "idle" /\ HELM_BASE_CONFIG = <<>> /\ CLOUD_SPECIFIC_VALUES = <<>>
    /\ self_environment = "none" /\ managed_registry_info = None
    /\ sa_email = None /\ helm_command = <<>> /\ helm_command_again = <<>>
    /\ tables_before = <<>>
    /\ run_variant = "install" /\ rpc = "idle" /\ loadbalancer_only = FALSE
    /\ installed_tools = {} /\ run_environment = "none" /\ calls = <<>>
    /\ run_exit = "none"
    /\ hosts_written = FALSE /\ hosts_printed = FALSE
    /\ hosts_return = "none"
    /\ hc_pc = "idle" /\ hc_success = FALSE /\ hc_output = <<>>
    /\ hc_result = "none"
    /\ provisioningState = "none" /\ aks_pc = "poll"

FinalizeNext ==
    \/ FinLoop \/ PrimaryQuery \/ ScanQuery \/ StructuredQuery \/ ReturnNone
    \/ FinAttemptDone \/ FinReport

SpecFinalize == FinalizeInit /\ [][FinalizeNext]_vars

\* C21: when get_load_balancer_address returns None it has made, in this
\* order, the two queries of the named service, the scan of the
\* LoadBalancer services of the namespace and the structured query.
C21_FallbacksTriedBeforeNull ==
    /\ (fpc = "returned" /\ address = "null") =>
           queries = <<"hostname", "ip", "scan", "structured">>
    /\ fpc = "structured" => queries = <<"hostname", "ip", "scan">>

\* get_load_balancer_address has returned None although the service exists
\* and its address is pending
C21_Witness ==
    /\ fpc = "returned" /\ address = "null" /\ lb_state = "pending"
    /\ queries = <<"hostname", "ip", "scan", "structured">>

\* C22: finalize_installation ends after at most max_retries attempts, its
\* address is either null or an address of the service, never a
\* placeholder, and it is null only if the last attempt found the service
\* without an address.
C22_BoundedAndNullOrAddress ==
    /\ fin_i <= max_retries
    /\ fpc = "done" =>
          /\ address \in {"null"} \cup Addresses
          /\ address \notin Placeholders
          /\ address = "null" => fin_i = max_retries

----------------------------------------------------------------------------
\* HopsworksInstaller.run: the order in which it calls the phases
\* (src/install-hopsworks.py, src/hop-deploy.py)

notDispatch == <<installAll, podsVars, prereqVars, totalVars, licenseVars,
                 helmVars, lbVars, hostsVars, healthVars, aksVars>>

RunVariants == {"install", "hopdeploy"}

AllTools == {"kubectl", "helm", "gcloud", "aws", "az"}

\* What shutil.which can find: everything, or everything but one binary
ToolSets == {AllTools} \cup {AllTools \ {t} : t \in AllTools}

\* tools = ["kubectl", "helm"]; if self.environment == "GCP":
\* tools.append("gcloud") ...   (hop-deploy.py checks the first two only)
required_tools(v, env) ==
    {"kubectl", "helm"} \cup
        (CASE v = "install" /\ env = "GCP"   -> {"gcloud"}
           [] v = "install" /\ env = "AWS"   -> {"aws"}
           [] v = "install" /\ env = "Azure" -> {"az"}
           [] OTHER                          -> {})

\* The method run() calls for the prerequisites of the environment
PrerequisitesOf(env) ==
    CASE env = "GCP"   -> "setup_gke_prerequisites"
      [] env = "AWS"   -> "setup_aws_prerequisites"
      [] env = "Azure" -> "setup_aks_prerequisites"
      [] OTHER         -> "setup_and_verify_kubeconfig"

\* What handle_managed_registry calls for the environment
RegistryOf(env) ==
    CASE env = "AWS" -> <<"setup_aws_ecr">>
      [] env = "GCP" -> <<"setup_gke_registry">>
      [] OTHER       -> << >>

\* The position of run() after the menu
AfterMenu(v, lb_only) ==
    CASE v = "hopdeploy" -> "kubeconfig"
      [] lb_only         -> "kubeconfig"
      [] OTHER           -> "prerequisites"

\* The position of run() after setup_and_verify_kubeconfig
AfterKubeconfig(v, lb_only) ==
    CASE v = "hopdeploy" -> "registry"
      [] lb_only         -> "finalize"
      [] OTHER           -> "registry"

\* The position of run() after handle_managed_registry
AfterRegistry(v, lb_only) ==
    IF v = "hopdeploy" /\ lb_only THEN "finalize" ELSE "license"

\* self.check_required_tools(): self.environment is what it is at the call
RunCheckTools ==
    /\ rpc = "check_tools"
    /\ calls' = Append(calls, "check_required_tools")
    /\ IF required_tools(run_variant, run_environment) \subseteq installed_tools
       THEN /\ rpc' = "menu"
            /\ UNCHANGED run_exit
       ELSE /\ rpc' = "exited"
            /\ run_exit' = "1"
    /\ UNCHANGED <<run_variant, loadbalancer_only, installed_tools,
                   run_environment, notDispatch>>

\* self.get_deployment_environment()
RunChooseEnvironment ==
    /\ rpc = "menu"
    /\ run_environment' \in Environments
    /\ calls' = Append(calls, "get_deployment_environment")
    /\ rpc' = AfterMenu(run_variant, loadbalancer_only)
    /\ UNCHANGED <<run_variant, loadbalancer_only, installed_tools,
                   run_exit, notDispatch>>

\* self.setup_gke_prerequisites() / setup_aws_prerequisites() /
\* setup_aks_prerequisites() / setup_and_verify_kubeconfig(): the commands
\* of a provider whose CLI is not installed fail
RunPrerequisites ==
    /\ rpc = "prerequisites"
    /\ calls' = Append(calls, PrerequisitesOf(run_environment))
    /\ \E ok \in BOOLEAN :
          /\ ok => required_tools("install", run_environment)
                      \subseteq installed_tools
          /\ rpc' = IF ok THEN "registry" ELSE "exited"
          /\ run_exit' = IF ok THEN run_exit ELSE "1"
    /\ UNCHANGED <<run_variant, loadbalancer_only, installed_tools,
                   run_environment, notDispatch>>

\* self.setup_and_verify_kubeconfig() of the other paths
RunKubeconfig ==
    /\ rpc = "kubeconfig"
    /\ calls' = Append(calls, "setup_and_verify_kubeconfig")
    /\ \E ok \in BOOLEAN :
          /\ ok => required_tools("install", run_environment)
                      \subseteq installed_tools
          /\ rpc' = IF ok THEN AfterKubeconfig(run_variant, loadbalancer_only)
                    ELSE "exited"
          /\ run_exit' = IF ok THEN run_exit ELSE "1"
    /\ UNCHANGED <<run_variant, loadbalancer_only, installed_tools,
                   run_environment, notDispatch>>

\* self.handle_managed_registry()
RunRegistry ==
    /\ rpc = "registry"
    /\ calls' = Append(calls, "handle_managed_registry")
                   \o RegistryOf(run_environment)
    /\ \E ok \in BOOLEAN :
          /\ RegistryOf(run_environment) = << >> => ok
          /\ rpc' = IF ok THEN AfterRegistry(run_variant, loadbalancer_only)
                    ELSE "exited"
          /\ run_exit' = IF ok THEN run_exit ELSE "1"
    /\ UNCHANGED <<run_variant, loadbalancer_only, installed_tools,
                   run_environment, notDispatch>>

\* self.handle_license_and_user_data(): sys.exit(1) if the license is
\* declined
RunLicense ==
    /\ rpc = "license"
    /\ calls' = Append(calls, "handle_license_and_user_data")
    /\ \E agreed \in BOOLEAN :
          /\ rpc' = IF agreed THEN "install" ELSE "exited"
          /\ run_exit' = IF agreed THEN run_exit ELSE "1"
    /\ UNCHANGED <<run_variant, loadbalancer_only, installed_tools,
                   run_environment, notDispatch>>

\* if self.install_hopsworks(): ... else: sys.exit(1)
RunInstall ==
    /\ rpc = "install"
    /\ calls' = Append(calls, "install_hopsworks")
    /\ \E ok \in BOOLEAN :
          /\ rpc' = IF ok THEN "finalize" ELSE "exited"
          /\ run_exit' = IF ok THEN run_exit ELSE "1"
    /\ UNCHANGED <<run_variant, loadbalancer_only, installed_tools,
                   run_environment, notDispatch>>

\* self.finalize_installation(); run() returns
RunFinalize ==
    /\ rpc = "finalize"
    /\ calls' = Append(calls, "finalize_installation")
    /\ rpc' = "exited"
    /\ run_exit' = "0"
    /\ UNCHANGED <<run_variant, loadbalancer_only, installed_tools,
                   run_environment, notDispatch>>

\* State after parse_arguments
DispatchInit ==
    /\ run_variant \in RunVariants /\ rpc = "check_tools"
    /\ loadbalancer_only \in BOOLEAN /\ installed_tools \in ToolSets
    /\ run_environment = "none" /\ calls = << >> /\ run_exit = "none"
    /\ ipc = "idle" /\ iresult = "none" /\ helm_error = {}
    /\ helm_success = "none"
    /\ tpc = "idle" /\ stop_event = FALSE
    /\ wpc = "idle" /\ result = "none" /\ retSite = "none"
    /\ timeout = 0 /\ elapsed = 0 /\ override_flag = FALSE
    /\ platform = "posix" /\ lpc = "idle" /\ tty = "cooked"
    /\ keyDetected = FALSE /\ interruptedAt = "none" /\ everReady = FALSE
    /\ failStreak = 0 /\ pollsAfterKey = 0
    /\ variant = "eks" /\ ppc = "idle" /\ presult = "none"
    /\ pretSite = "none" /\ ptimeout = 0 /\ pelapsed = 0 /\ snap = NoSnapshot
    /\ environment = "none" /\ runPhase = "idle" /\ runStep = 0
    /\ verify_i = 0
    /\ exit_code = "none" /\ failed = {} /\ critFail = "none"
    /\ afterCrit = {} /\ lastAnswer = NoAnswer
    /\ main_pc = "idle" /\ main_args = NoArgs /\ main_environment = "none"
    /\ main_installation_id = "none" /\ main_cluster_bound = FALSE
    /\ real_commands = {} /\ dry_logged = {} /\ main_exit = "none"
    /\ installation_id = "none" /\ generated_id = "none"
    /\ post_outcome = "none"
    /\ hpc = "idle" /\ HELM_BASE_CONFIG = <<>> /\ CLOUD_SPECIFIC_VALUES = <<>>
    /\ self_environment = "none" /\ managed_registry_info = None
    /\ sa_email = None /\ helm_command = <<>> /\ helm_command_again = <<>>
    /\ tables_before = <<>>
    /\ fpc = "idle" /\ fin_i = 0 /\ address = "null" /\ queries = <<>>
    /\ lb_state = "absent"
    /\ hosts_written = FALSE /\ hosts_printed = FALSE
    /\ hosts_return = "none"
    /\ hc_pc = "idle" /\ hc_success = FALSE /\ hc_output = <<>>
    /\ hc_result = "none"
    /\ provisioningState = "none" /\ aks_pc = "poll"

DispatchNext ==
    \/ RunCheckTools \/ RunChooseEnvironment \/ RunPrerequisites
    \/ RunKubeconfig \/ RunRegistry \/ RunLicense \/ RunInstall
    \/ RunFinalize

SpecDispatch == DispatchInit /\ [][DispatchNext]_vars

Called(name) == \E i \in DOMAIN calls : calls[i] = name

ProvisioningCalls ==
    {"setup_gke_prerequisites", "setup_aws_prerequisites",
     "setup_aks_prerequisites", "setup_and_verify_kubeconfig",
     "setup_aws_ecr", "setup_gke_registry"}

\* C23: no provisioning method is called while a binary that the chosen
\* provider needs is missing; the run has exited with code 1 at the tool
\* check instead.
C23_MissingToolExitsAtToolCheck ==
    (/\ run_variant = "install"
     /\ run_environment \in Environments
     /\ ~(required_tools("install", run_environment) \subseteq installed_tools))
    => (\A name \in ProvisioningCalls : ~Called(name))

\* C24: with --loadbalancer-only no prerequisite provisioning, registry
\* creation, license step or install is called.
C24_LoadbalancerOnlySkipsToFinalize ==
    loadbalancer_only =>
        \A name \in {"setup_gke_prerequisites", "setup_aws_prerequisites",
                     "setup_aks_prerequisites", "setup_aws_ecr",
                     "setup_gke_registry", "handle_license_and_user_data",
                     "install_hopsworks"} : ~Called(name)

----------------------------------------------------------------------------
\* C25: on the OVH path the kubeconfig given by the operator has been
\* copied into the default location and the copy has been given mode 0600
\* when setup_kubeconfig has completed.
C25_KubeconfigCopiedWithRestrictivePermissions ==
    (main_environment = "OVH" /\ main_pc = "install_pre") =>
        {"copy kubeconfig", "chmod 600 kubeconfig"} \subseteq real_commands

\* C26: whenever update_hosts_file was called for real and the entry was
\* not written, the line has been printed and the function has returned
\* without raising.
C26_UnwrittenEntryIsPrintedWithoutRaising ==
    (hosts_return # "none" /\ ~main_args.dry_run /\ ~hosts_written) =>
        (hosts_printed /\ hosts_return = "returned")

----------------------------------------------------------------------------
\* health_check (src/install-hopsworks.py)

MaxPhases == 3          \* kubectl reports the phases of up to MaxPhases pods

PodPhases == {"Running", "Pending", "Failed", "Succeeded"}

\* stdout of kubectl get pods -o jsonpath='{.items[*].status.phase}': the
\* phases of the pods, separated by blanks
PhaseOutputs == UNION {[1..n -> PodPhases] : n \in 0..MaxPhases}

\* 'Running' in output: no other phase name contains the word
RunningInOutput(output) == \E i \in DOMAIN output : output[i] = "Running"

\* if not success or 'Running' not in output: return False;  return True
health_check(success, output) ==
    IF ~success \/ ~RunningInOutput(output) THEN "False" ELSE "True"

HealthCheck ==
    /\ hc_pc = "ready"
    /\ hc_result' = health_check(hc_success, hc_output)
    /\ hc_pc' = "returned"
    /\ UNCHANGED <<hc_success, hc_output, installAll, podsVars, prereqVars,
                   totalVars, licenseVars, helmVars, lbVars, dispatchVars,
                   hostsVars, aksVars>>

\* State at the call of health_check
HealthInit ==
    /\ hc_pc = "ready" /\ hc_success \in BOOLEAN
    /\ hc_output \in PhaseOutputs /\ hc_result = "none"
    /\ ipc = "idle" /\ iresult = "none" /\ helm_error = {}
    /\ helm_success = "none"
    /\ tpc = "idle" /\ stop_event = FALSE
    /\ wpc = "idle" /\ result = "none" /\ retSite = "none"
    /\ timeout = 0 /\ elapsed = 0 /\ override_flag = FALSE
    /\ platform = "posix" /\ lpc = "idle" /\ tty = "cooked"
    /\ keyDetected = FALSE /\ interruptedAt = "none" /\ everReady = FALSE
    /\ failStreak = 0 /\ pollsAfterKey = 0
    /\ variant = "eks" /\ ppc = "idle" /\ presult = "none"
    /\ pretSite = "none" /\ ptimeout = 0 /\ pelapsed = 0 /\ snap = NoSnapshot
    /\ environment = "none" /\ runPhase = "idle" /\ runStep = 0
    /\ verify_i = 0
    /\ exit_code = "none" /\ failed = {} /\ critFail = "none"
    /\ afterCrit = {} /\ lastAnswer = NoAnswer
    /\ main_pc = "idle" /\ main_args = NoArgs /\ main_environment = "none"
    /\ main_installation_id = "none" /\ main_cluster_bound = FALSE
    /\ real_commands = {} /\ dry_logged = {} /\ main_exit = "none"
    /\ installation_id = "none" /\ generated_id = "none"
    /\ post_outcome = "none"
    /\ hpc = "idle" /\ HELM_BASE_CONFIG = <<>> /\ CLOUD_SPECIFIC_VALUES = <<>>
    /\ self_environment = "none" /\ managed_registry_info = None
    /\ sa_email = None /\ helm_command = <<>> /\ helm_command_again = <<>>
    /\ tables_before = <<>>
    /\ fpc = "idle" /\ fin_i = 0 /\ address = "null" /\ queries = <<>>
    /\ lb_state = "absent"
    /\ run_variant = "install" /\ rpc = "idle" /\ loadbalancer_only = FALSE
    /\ installed_tools = {} /\ run_environment = "none" /\ calls = <<>>
    /\ run_exit = "none"
    /\ hosts_written = FALSE /\ hosts_printed = FALSE
    /\ hosts_return = "none"
    /\ provisioningState = "none" /\ aks_pc = "poll"

HealthNext == HealthCheck

SpecHealth == HealthInit /\ [][HealthNext]_vars

\* C27: health_check returns True only if the query succeeded and every
\* reported phase is "Running".
C27_HealthyOnlyIfAllRunning ==
    (hc_pc = "returned" /\ hc_result = "True") =>
        (hc_success /\ \A i \in DOMAIN hc_output : hc_output[i] = "Running")

----------------------------------------------------------------------------
\* C28: once the AKS cluster creation has ended in the state Failed, the
\* run terminates.
C28_FailedProvisioningEndsTheRun ==
    (environment = "Azure" /\ provisioningState = "Failed")
        ~> (runPhase = "exited")

----------------------------------------------------------------------------
\* C29: when wait_for_deployment has returned its key listener thread has
\* ended and the terminal is back in its original input mode.
C29_ListenerEndedAndTerminalRestored ==
    wpc = "done" => (lpc = "done" /\ tty = "cooked")

----------------------------------------------------------------------------
\* C30: in every poll cycle no pod without container statuses is counted
\* as ready, 0 <= ready <= total, and a cycle with zero pods does not
\* raise.
C30_ReadyCountsOnlyPodsWithReadyContainers ==
    snap.polled =>
        /\ snap.noStatusCounted = 0
        /\ 0 <= snap.ready_pods /\ snap.ready_pods <= snap.total_pods
        /\ snap.total_pods = 0 => presult # "raised"

=============================================================================
